---- MODULE Spec2Model ----
(***************************************************************************)
(* Loop binding of the X12 837 005010X222A2 transaction                    *)
(* (linuxforhealth/x12/v5010/x12_837_005010X222A2/parsing.py).             *)
(*                                                                         *)
(* Python dicts are objects with identity: the model keeps them in a heap  *)
(* (a sequence of nodes, a node's id is its index) so that aliasing        *)
(* (patient_record is subscriber_record) and replacement of a dict under a *)
(* key (the old dict stays in the heap, detached) are both visible.        *)
(***************************************************************************)
EXTENDS Integers, Sequences, FiniteSets, TLC

(* ---------------- TransactionLoops (parsing.py 17-61) ------------------ *)
HEADER == "header"
SUBMITTER_NAME == "loop_1000a"
RECEIVER_NAME == "loop_1000b"
BILLING_PROVIDER == "loop_2000a"
BILLING_PROVIDER_NAME == "loop_2010aa"
BILLING_PROVIDER_PAY_TO_ADDRESS == "loop_2010ab"
BILLING_PROVIDER_PAY_TO_PLAN_NAME == "loop_2010ac"
SUBSCRIBER == "loop_2000b"
SUBSCRIBER_NAME == "loop_2010ba"
SUBSCRIBER_PAYER_NAME == "loop_2010bb"
PATIENT_LOOP == "loop_2000c"
PATIENT_LOOP_NAME == "loop_2010ca"
CLAIM_INFORMATION == "loop_2300"
CLAIM_REFERRING_PROVIDER_NAME == "loop_2310a"
CLAIM_RENDERING_PROVIDER_NAME == "loop_2310b"
CLAIM_SERVICE_FACILITY_LOCATION_NAME == "loop_2310c"
CLAIM_SUPERVISING_PROVIDER_NAME == "loop_2310d"
CLAIM_AMBULANCE_PICKUP_LOCATION == "loop_2310e"
CLAIM_AMBULANCE_DROPOFF_LOCATION == "loop_2310f"
CLAIM_OTHER_SUBSCRIBER_INFORMATION == "loop_2320"
CLAIM_OTHER_SUBSCRIBER_NAME == "loop_2330a"
CLAIM_OTHER_SUBSCRIBER_OTHER_PAYER_NAME == "loop_2330b"
CLAIM_OTHER_SUBSCRIBER_OTHER_PAYER_REFERRING_PROVIDER_NAME == "loop_2330c"
CLAIM_OTHER_SUBSCRIBER_OTHER_PAYER_RENDERING_PROVIDER_NAME == "loop_2330d"
CLAIM_OTHER_SUBSCRIBER_OTHER_PAYER_SERVICE_FACILITY_LOCATION == "loop_2330e"
CLAIM_OTHER_SUBSCRIBER_OTHER_PAYER_SUPERVISING_PROVIDER_NAME == "loop_2330f"
CLAIM_OTHER_SUBSCRIBER_OTHER_PAYER_BILLING_PROVIDER_NAME == "loop_2330g"
CLAIM_SERVICE_LINE == "loop_2400"
CLAIM_SERVICE_LINE_DRUG_IDENTIFICATION_NAME == "loop_2410"
CLAIM_SERVICE_LINE_RENDERING_PROVIDER_NAME == "loop_2420a"
CLAIM_SERVICE_LINE_PURCHASED_SERVICE_PROVIDER_NAME == "loop_2420b"
CLAIM_SERVICE_LINE_SERVICE_FACILITY_LOCATION_NAME == "loop_2420c"
CLAIM_SERVICE_LINE_SUPERVISING_PROVIDER_NAME == "loop_2420d"
CLAIM_SERVICE_LINE_ORDERING_PROVIDER_NAME == "loop_2420e"
CLAIM_SERVICE_LINE_REFERRING_PROVIDER_NAME == "loop_2420f"
CLAIM_SERVICE_LINE_AMBULANCE_PICKUP_LOCATION == "loop_2420g"
CLAIM_SERVICE_LINE_AMBULANCE_DROPOFF_LOCATION == "loop_2420h"
CLAIM_SERVICE_LINE_LINE_ADJUDICATION_INFORMATION == "loop_2430"
CLAIM_SERVICE_LINE_LINE_FORM_IDENTIFICATION == "loop_2440"
FOOTER == "footer"

\* The characters of every loop id: Python's `"loop_23" in context.loop_name`
\* is a substring test on these.
Chars ==
     HEADER :> <<"h", "e", "a", "d", "e", "r">>
  @@ SUBMITTER_NAME :> <<"l", "o", "o", "p", "_", "1", "0", "0", "0", "a">>
  @@ RECEIVER_NAME :> <<"l", "o", "o", "p", "_", "1", "0", "0", "0", "b">>
  @@ BILLING_PROVIDER :> <<"l", "o", "o", "p", "_", "2", "0", "0", "0", "a">>
  @@ BILLING_PROVIDER_NAME :> <<"l", "o", "o", "p", "_", "2", "0", "1", "0", "a", "a">>
  @@ BILLING_PROVIDER_PAY_TO_ADDRESS :> <<"l", "o", "o", "p", "_", "2", "0", "1", "0", "a", "b">>
  @@ BILLING_PROVIDER_PAY_TO_PLAN_NAME :> <<"l", "o", "o", "p", "_", "2", "0", "1", "0", "a", "c">>
  @@ SUBSCRIBER :> <<"l", "o", "o", "p", "_", "2", "0", "0", "0", "b">>
  @@ SUBSCRIBER_NAME :> <<"l", "o", "o", "p", "_", "2", "0", "1", "0", "b", "a">>
  @@ SUBSCRIBER_PAYER_NAME :> <<"l", "o", "o", "p", "_", "2", "0", "1", "0", "b", "b">>
  @@ PATIENT_LOOP :> <<"l", "o", "o", "p", "_", "2", "0", "0", "0", "c">>
  @@ PATIENT_LOOP_NAME :> <<"l", "o", "o", "p", "_", "2", "0", "1", "0", "c", "a">>
  @@ CLAIM_INFORMATION :> <<"l", "o", "o", "p", "_", "2", "3", "0", "0">>
  @@ CLAIM_REFERRING_PROVIDER_NAME :> <<"l", "o", "o", "p", "_", "2", "3", "1", "0", "a">>
  @@ CLAIM_RENDERING_PROVIDER_NAME :> <<"l", "o", "o", "p", "_", "2", "3", "1", "0", "b">>
  @@ CLAIM_SERVICE_FACILITY_LOCATION_NAME :> <<"l", "o", "o", "p", "_", "2", "3", "1", "0", "c">>
  @@ CLAIM_SUPERVISING_PROVIDER_NAME :> <<"l", "o", "o", "p", "_", "2", "3", "1", "0", "d">>
  @@ CLAIM_AMBULANCE_PICKUP_LOCATION :> <<"l", "o", "o", "p", "_", "2", "3", "1", "0", "e">>
  @@ CLAIM_AMBULANCE_DROPOFF_LOCATION :> <<"l", "o", "o", "p", "_", "2", "3", "1", "0", "f">>
  @@ CLAIM_OTHER_SUBSCRIBER_INFORMATION :> <<"l", "o", "o", "p", "_", "2", "3", "2", "0">>
  @@ CLAIM_OTHER_SUBSCRIBER_NAME :> <<"l", "o", "o", "p", "_", "2", "3", "3", "0", "a">>
  @@ CLAIM_OTHER_SUBSCRIBER_OTHER_PAYER_NAME :> <<"l", "o", "o", "p", "_", "2", "3", "3", "0", "b">>
  @@ CLAIM_OTHER_SUBSCRIBER_OTHER_PAYER_REFERRING_PROVIDER_NAME :> <<"l", "o", "o", "p", "_", "2", "3", "3", "0", "c">>
  @@ CLAIM_OTHER_SUBSCRIBER_OTHER_PAYER_RENDERING_PROVIDER_NAME :> <<"l", "o", "o", "p", "_", "2", "3", "3", "0", "d">>
  @@ CLAIM_OTHER_SUBSCRIBER_OTHER_PAYER_SERVICE_FACILITY_LOCATION :> <<"l", "o", "o", "p", "_", "2", "3", "3", "0", "e">>
  @@ CLAIM_OTHER_SUBSCRIBER_OTHER_PAYER_SUPERVISING_PROVIDER_NAME :> <<"l", "o", "o", "p", "_", "2", "3", "3", "0", "f">>
  @@ CLAIM_OTHER_SUBSCRIBER_OTHER_PAYER_BILLING_PROVIDER_NAME :> <<"l", "o", "o", "p", "_", "2", "3", "3", "0", "g">>
  @@ CLAIM_SERVICE_LINE :> <<"l", "o", "o", "p", "_", "2", "4", "0", "0">>
  @@ CLAIM_SERVICE_LINE_DRUG_IDENTIFICATION_NAME :> <<"l", "o", "o", "p", "_", "2", "4", "1", "0">>
  @@ CLAIM_SERVICE_LINE_RENDERING_PROVIDER_NAME :> <<"l", "o", "o", "p", "_", "2", "4", "2", "0", "a">>
  @@ CLAIM_SERVICE_LINE_PURCHASED_SERVICE_PROVIDER_NAME :> <<"l", "o", "o", "p", "_", "2", "4", "2", "0", "b">>
  @@ CLAIM_SERVICE_LINE_SERVICE_FACILITY_LOCATION_NAME :> <<"l", "o", "o", "p", "_", "2", "4", "2", "0", "c">>
  @@ CLAIM_SERVICE_LINE_SUPERVISING_PROVIDER_NAME :> <<"l", "o", "o", "p", "_", "2", "4", "2", "0", "d">>
  @@ CLAIM_SERVICE_LINE_ORDERING_PROVIDER_NAME :> <<"l", "o", "o", "p", "_", "2", "4", "2", "0", "e">>
  @@ CLAIM_SERVICE_LINE_REFERRING_PROVIDER_NAME :> <<"l", "o", "o", "p", "_", "2", "4", "2", "0", "f">>
  @@ CLAIM_SERVICE_LINE_AMBULANCE_PICKUP_LOCATION :> <<"l", "o", "o", "p", "_", "2", "4", "2", "0", "g">>
  @@ CLAIM_SERVICE_LINE_AMBULANCE_DROPOFF_LOCATION :> <<"l", "o", "o", "p", "_", "2", "4", "2", "0", "h">>
  @@ CLAIM_SERVICE_LINE_LINE_ADJUDICATION_INFORMATION :> <<"l", "o", "o", "p", "_", "2", "4", "3", "0">>
  @@ CLAIM_SERVICE_LINE_LINE_FORM_IDENTIFICATION :> <<"l", "o", "o", "p", "_", "2", "4", "4", "0">>
  @@ FOOTER :> <<"f", "o", "o", "t", "e", "r">>

\* Substring patterns that the guards use and that are not loop ids themselves.
LOOP_2010A == <<"l", "o", "o", "p", "_", "2", "0", "1", "0", "a">>
LOOP_2310 == <<"l", "o", "o", "p", "_", "2", "3", "1", "0">>
LOOP_2330 == <<"l", "o", "o", "p", "_", "2", "3", "3", "0">>
LOOP_23 == <<"l", "o", "o", "p", "_", "2", "3">>
LOOP_24 == <<"l", "o", "o", "p", "_", "2", "4">>

\* Python's `sub in s` for strings: sub occurs in s as a contiguous run.
Contains(sub, s) ==
  \E i \in 0..(Len(s) - Len(sub)) : SubSeq(s, i + 1, i + Len(sub)) = sub

\* `sub in context.loop_name`
InLoopName(sub, name) == Contains(sub, Chars[name])

(* ---------------- dict objects and the parser context ------------------ *)
\* Python's None for a record shortcut that refers to no dict.
None == 0

\* context.transaction_data: the root dict of the document tree.
transaction_data == 1

EmptyDict == [k \in {} |-> 0]

\* d[k] = v
Put(d, k, v) == [x \in (DOMAIN d) \cup {k} |-> IF x = k THEN v ELSE d[x]]

\* A fresh dict literal {"a_segment": [], ...}: `lists` are its empty segment
\* lists, `hl` the hierarchical_level_code of its hl_segment ("" when it has
\* none), `one` its singular child loops and `many` its repeating child loops.
NewDict(lists) ==
  [hl |-> "", lists |-> lists, one |-> EmptyDict, many |-> EmptyDict]

NoHL == [hierarchical_level_code |-> "", hierarchical_child_code |-> ""]

\* The parser context, and `call`: the most recent call of a function of
\* support.py or models.py with its argument and its outcome.
VARIABLES heap, loop_name, loop_container, subscriber_record, patient_record,
          hl_segment, error, call

vars == <<heap, loop_name, loop_container, subscriber_record, patient_record,
          hl_segment, error, call>>

\* The context a handler receives; `opened` lists the loops opened while the
\* current segment is processed.
Context ==
  [heap |-> heap, loop_name |-> loop_name, loop_container |-> loop_container,
   subscriber_record |-> subscriber_record, patient_record |-> patient_record,
   hl_segment |-> hl_segment, error |-> error, opened |-> <<>>]

\* X12ParserContext.set_loop_context
set_loop_context(c, name, container) ==
  [c EXCEPT !.loop_name = name, !.loop_container = container,
            !.opened = Append(@, name)]

\* An exception leaves the handler: nothing after it runs.
Raise(c) == [c EXCEPT !.error = TRUE]

\* parent[key] = {...}; the value is the id of the new dict, Len(result.heap).
SetChild(c, parent, key, lists) ==
  LET n == Len(c.heap) + 1
      h == Append(c.heap, NewDict(lists))
  IN [c EXCEPT !.heap = [h EXCEPT ![parent].one = Put(@, key, n)]]

\* if key not in parent: parent[key] = []
\* parent[key].append({...})
AppendChild(c, parent, key, lists) ==
  LET n == Len(c.heap) + 1
      h == Append(c.heap, NewDict(lists))
      old == IF key \in DOMAIN c.heap[parent].many
             THEN c.heap[parent].many[key] ELSE <<>>
  IN [c EXCEPT !.heap = [h EXCEPT ![parent].many = Put(@, key, Append(old, n))]]

\* parent[key] = []
ResetList(c, parent, key) ==
  [c EXCEPT !.heap[parent].many = Put(@, key, <<>>)]

\* Python's truth value of a str: the empty string alone is false.
Truthy(s) == s # ""

\* parent[key][-1], None when Python raises KeyError or IndexError
LastOf(c, parent, key) ==
  IF key \in DOMAIN c.heap[parent].many /\ Len(c.heap[parent].many[key]) > 0
  THEN c.heap[parent].many[key][Len(c.heap[parent].many[key])]
  ELSE None

(* ---------------- record getters (parsing.py 64-97) -------------------- *)
get_header(c) == c.heap[transaction_data].one[HEADER]

get_billing_provider(c) == LastOf(c, transaction_data, BILLING_PROVIDER)

is_patient_a_dependent(c, patient) == c.heap[patient].hl = "23"

\* None when the lookup raises
get_claim(c) ==
  IF c.patient_record = None THEN None
  ELSE IF is_patient_a_dependent(c, c.patient_record)
       THEN LastOf(c, c.patient_record, CLAIM_INFORMATION)
  ELSE IF c.subscriber_record = None THEN None
  ELSE IF CLAIM_INFORMATION \notin DOMAIN c.heap[c.subscriber_record].many
       THEN LastOf(c, c.patient_record, CLAIM_INFORMATION)
  ELSE LastOf(c, c.subscriber_record, CLAIM_INFORMATION)

\* claim.get(loop_2320, [{}])[-1]: the default is a fresh dict that no
\* claim holds. The result is the context (with that dict allocated when the
\* default is taken) and the id of the record; `claim` is not None.
get_other_subscriber(c, claim) ==
  IF CLAIM_OTHER_SUBSCRIBER_INFORMATION \in DOMAIN c.heap[claim].many
  THEN [ctx |-> c,
        rec |-> LastOf(c, claim, CLAIM_OTHER_SUBSCRIBER_INFORMATION)]
  ELSE [ctx |-> [c EXCEPT !.heap = Append(@, NewDict({}))],
        rec |-> Len(c.heap) + 1]

\* get_service_line falling back to the claim the patient received before
\* the current one.
get_service_line_of_earlier_claim(c) ==
  IF get_claim(c) = None THEN None
  ELSE IF LastOf(c, get_claim(c), CLAIM_SERVICE_LINE) # None
       THEN LastOf(c, get_claim(c), CLAIM_SERVICE_LINE)
  ELSE LET claims == c.heap[c.patient_record].many[CLAIM_INFORMATION]
       IN IF Len(claims) < 2 THEN None
          ELSE LastOf(c, claims[Len(claims) - 1], CLAIM_SERVICE_LINE)

get_service_line(c) ==
  IF get_claim(c) = None THEN None
  ELSE LastOf(c, get_claim(c), CLAIM_SERVICE_LINE)

(* ---------------- loop handlers (parsing.py 100-706) ------------------- *)
set_header_loop(c, d) == set_loop_context(c, HEADER, get_header(c))

set_submitter_name_loop(c, d) ==
  IF c.loop_name = HEADER
  THEN LET c1 == SetChild(c, transaction_data, SUBMITTER_NAME, {"per_segment"})
       IN set_loop_context(c1, SUBMITTER_NAME, Len(c1.heap))
  ELSE c

set_receiver_name_loop(c, d) ==
  IF c.loop_name = SUBMITTER_NAME
  THEN LET c1 == SetChild(c, transaction_data, RECEIVER_NAME, {})
       IN set_loop_context(c1, RECEIVER_NAME, Len(c1.heap))
  ELSE c

set_billing_provider_loop(c, d) ==
  LET c1 == AppendChild(c, transaction_data, BILLING_PROVIDER, {})
  IN set_loop_context(c1, BILLING_PROVIDER, Len(c1.heap))

set_billing_provider_name_loop(c, d) ==
  IF c.loop_name = BILLING_PROVIDER
  THEN LET bp == get_billing_provider(c) IN
       IF bp = None THEN Raise(c)
       ELSE LET c1 == IF BILLING_PROVIDER_NAME \notin DOMAIN c.heap[bp].one
                      THEN SetChild(c, bp, BILLING_PROVIDER_NAME,
                                    {"ref_segment", "per_segment"})
                      ELSE c
            IN set_loop_context(c1, BILLING_PROVIDER_NAME,
                                c1.heap[bp].one[BILLING_PROVIDER_NAME])
  ELSE c

set_pay_to_address_name_loop(c, d) ==
  IF InLoopName(LOOP_2010A, c.loop_name)
  THEN LET bp == get_billing_provider(c) IN
       IF bp = None THEN Raise(c)
       ELSE IF BILLING_PROVIDER_PAY_TO_ADDRESS \notin DOMAIN c.heap[bp].one
       THEN LET c1 == SetChild(c, bp, BILLING_PROVIDER_PAY_TO_ADDRESS,
                               {"ref_segment", "per_segment"})
            IN set_loop_context(c1, BILLING_PROVIDER_PAY_TO_ADDRESS,
                                Len(c1.heap))
       ELSE c
  ELSE c

set_pay_to_plan_name_loop(c, d) ==
  IF InLoopName(LOOP_2010A, c.loop_name)
  THEN LET bp == get_billing_provider(c) IN
       IF bp = None THEN Raise(c)
       ELSE IF BILLING_PROVIDER_PAY_TO_PLAN_NAME \notin DOMAIN c.heap[bp].one
       THEN LET c1 == SetChild(c, bp, BILLING_PROVIDER_PAY_TO_PLAN_NAME,
                               {"ref_segment"})
            IN set_loop_context(c1, BILLING_PROVIDER_PAY_TO_PLAN_NAME,
                                Len(c1.heap))
       ELSE c
  ELSE c

\* Mutation of set_subscriber_loop: the subscriber-is-patient assignment of
\* context.patient_record is left out.
set_subscriber_loop_without_patient(c, d) ==
  LET bp == get_billing_provider(c) IN
  IF bp = None THEN Raise(c)
  ELSE LET c1 == AppendChild(c, bp, SUBSCRIBER, {})
           c2 == [c1 EXCEPT !.subscriber_record = Len(c1.heap)]
       IN set_loop_context(c2, SUBSCRIBER, c2.subscriber_record)

set_subscriber_loop(c, d) ==
  LET bp == get_billing_provider(c) IN
  IF bp = None THEN Raise(c)
  ELSE LET c1 == AppendChild(c, bp, SUBSCRIBER, {})
           c2 == [c1 EXCEPT !.subscriber_record = Len(c1.heap)]
           c3 == set_loop_context(c2, SUBSCRIBER, c2.subscriber_record)
       IN IF c3.hl_segment.hierarchical_child_code = "0"
          THEN [c3 EXCEPT !.patient_record = c3.subscriber_record]
          ELSE c3

set_subscriber_name_loop(c, d) ==
  IF c.loop_name = SUBSCRIBER
  THEN IF c.subscriber_record = None THEN Raise(c)
       ELSE LET s == c.subscriber_record
                c1 == IF SUBSCRIBER_NAME \notin DOMAIN c.heap[s].one
                      THEN SetChild(c, s, SUBSCRIBER_NAME, {"ref_segment"})
                      ELSE c
            IN set_loop_context(c1, SUBSCRIBER_NAME,
                                c1.heap[s].one[SUBSCRIBER_NAME])
  ELSE c

set_subscriber_payer_name_loop(c, d) ==
  IF c.loop_name = SUBSCRIBER_NAME
  THEN IF c.subscriber_record = None THEN Raise(c)
       ELSE LET s == c.subscriber_record
                c1 == IF SUBSCRIBER_PAYER_NAME \notin DOMAIN c.heap[s].one
                      THEN SetChild(c, s, SUBSCRIBER_PAYER_NAME,
                                    {"ref_segment"})
                      ELSE c
            IN set_loop_context(c1, SUBSCRIBER_NAME,
                                c1.heap[s].one[SUBSCRIBER_PAYER_NAME])
  ELSE c

\* Mutation of set_patient_loop: the new patient node is appended and becomes
\* the cursor, but context.patient_record is not pointed to it.
set_patient_loop_without_shortcut(c, d) ==
  IF c.subscriber_record = None THEN Raise(c)
  ELSE LET c1 == AppendChild(c, c.subscriber_record, PATIENT_LOOP, {})
       IN set_loop_context(c1, PATIENT_LOOP, Len(c1.heap))

set_patient_loop(c, d) ==
  IF c.subscriber_record = None THEN Raise(c)
  ELSE LET c1 == AppendChild(c, c.subscriber_record, PATIENT_LOOP, {})
           c2 == [c1 EXCEPT !.patient_record = Len(c1.heap)]
       IN set_loop_context(c2, PATIENT_LOOP, c2.patient_record)

set_patient_name_loop(c, d) ==
  IF c.patient_record = None THEN Raise(c)
  ELSE LET c1 == SetChild(c, c.patient_record, PATIENT_LOOP_NAME,
                          {"ref_segment"})
       IN set_loop_context(c1, PATIENT_LOOP_NAME, Len(c1.heap))

\* Mutation of set_claim_loop: the claim is attached to the loop the cursor
\* is in instead of the patient record.
set_claim_loop_under_cursor(c, d) ==
  IF c.loop_container = None THEN Raise(c)
  ELSE LET c1 == AppendChild(c, c.loop_container, CLAIM_INFORMATION,
                             {"dtp_segment", "pwk_segment", "ref_segment",
                              "k3_segment", "crc_segment", "hi_segment"})
       IN set_loop_context(c1, CLAIM_INFORMATION, Len(c1.heap))

set_claim_loop(c, d) ==
  IF c.patient_record = None THEN Raise(c)
  ELSE LET c1 == AppendChild(c, c.patient_record, CLAIM_INFORMATION,
                             {"dtp_segment", "pwk_segment", "ref_segment",
                              "k3_segment", "crc_segment", "hi_segment"})
       IN set_loop_context(c1, CLAIM_INFORMATION, Len(c1.heap))

claim_entity_loop_name(identifier) ==
  CASE identifier \in {"DN", "P3"} -> CLAIM_REFERRING_PROVIDER_NAME
    [] identifier = "82" -> CLAIM_RENDERING_PROVIDER_NAME
    [] identifier = "77" -> CLAIM_SERVICE_FACILITY_LOCATION_NAME
    [] identifier = "DQ" -> CLAIM_SUPERVISING_PROVIDER_NAME
    [] OTHER -> ""

\* Mutation of set_claim_entity_loop: the referring provider loop is created
\* as the other entity loops are, with a ref_segment list alone.
set_claim_entity_loop_ref_only(c, d) ==
  IF InLoopName(Chars[CLAIM_INFORMATION], c.loop_name)
     \/ InLoopName(LOOP_2310, c.loop_name)
  THEN LET name == claim_entity_loop_name(d.entity_identifier_code)
           claim == get_claim(c)
       IN IF name = "" THEN Raise(c)
          ELSE IF claim = None THEN Raise(c)
          ELSE LET c1 == IF name \notin DOMAIN c.heap[claim].one
                         THEN SetChild(c, claim, name, {"ref_segment"})
                         ELSE c
               IN set_loop_context(c1, name, c1.heap[claim].one[name])
  ELSE c

set_claim_entity_loop(c, d) ==
  IF InLoopName(Chars[CLAIM_INFORMATION], c.loop_name)
     \/ InLoopName(LOOP_2310, c.loop_name)
  THEN LET name == claim_entity_loop_name(d.entity_identifier_code)
           claim == get_claim(c)
       IN IF name = "" THEN Raise(c)
          ELSE IF claim = None THEN Raise(c)
          ELSE LET c1 == IF name \notin DOMAIN c.heap[claim].one
                         THEN IF name # CLAIM_REFERRING_PROVIDER_NAME
                              THEN SetChild(c, claim, name, {"ref_segment"})
                              ELSE SetChild(c, claim, name,
                                            {"nm1_segment", "ref_segment"})
                         ELSE c
               IN set_loop_context(c1, name, c1.heap[claim].one[name])
  ELSE c

\* Mutation of set_ambulance_loop: the guard of set_claim_entity_loop's first
\* disjunct ("loop_2300" in context.loop_name) in place of "loop_23".
set_ambulance_loop_in_2300_only(c, d) ==
  IF InLoopName(Chars[CLAIM_INFORMATION], c.loop_name)
  THEN LET claim == get_claim(c)
           name == IF d.entity_identifier_code = "PW"
                   THEN CLAIM_AMBULANCE_PICKUP_LOCATION
                   ELSE CLAIM_AMBULANCE_DROPOFF_LOCATION
       IN IF claim = None THEN Raise(c)
          ELSE LET c1 == SetChild(c, claim, name, {})
               IN set_loop_context(c1, name, c1.heap[claim].one[name])
  ELSE c

set_ambulance_loop(c, d) ==
  IF InLoopName(LOOP_23, c.loop_name)
  THEN LET claim == get_claim(c)
           name == IF d.entity_identifier_code = "PW"
                   THEN CLAIM_AMBULANCE_PICKUP_LOCATION
                   ELSE CLAIM_AMBULANCE_DROPOFF_LOCATION
       IN IF claim = None THEN Raise(c)
          ELSE LET c1 == SetChild(c, claim, name, {})
               IN set_loop_context(c1, name, c1.heap[claim].one[name])
  ELSE c

\* set_other_subscriber_loop without its test of the cursor's loop id.
set_other_subscriber_loop_everywhere(c, d) ==
  LET claim == get_claim(c) IN
  IF claim = None THEN Raise(c)
  ELSE LET c1 == AppendChild(c, claim, CLAIM_OTHER_SUBSCRIBER_INFORMATION,
                             {"cas_segment", "amt_segment"})
       IN set_loop_context(c1, CLAIM_OTHER_SUBSCRIBER_INFORMATION,
                           Len(c1.heap))

set_other_subscriber_loop(c, d) ==
  IF InLoopName(LOOP_23, c.loop_name)
  THEN LET claim == get_claim(c) IN
       IF claim = None THEN Raise(c)
       ELSE LET c1 == AppendChild(c, claim, CLAIM_OTHER_SUBSCRIBER_INFORMATION,
                                  {"cas_segment", "amt_segment"})
            IN set_loop_context(c1, CLAIM_OTHER_SUBSCRIBER_INFORMATION,
                                Len(c1.heap))
  ELSE c

set_other_subscriber_name_loop(c, d) ==
  IF c.loop_name = CLAIM_OTHER_SUBSCRIBER_INFORMATION
  THEN LET claim == get_claim(c) IN
       IF claim = None THEN Raise(c)
       ELSE LET o == get_other_subscriber(c, claim)
                c1 == SetChild(o.ctx, o.rec, CLAIM_OTHER_SUBSCRIBER_NAME, {})
            IN set_loop_context(c1, CLAIM_OTHER_SUBSCRIBER_NAME, Len(c1.heap))
  ELSE c

other_subscriber_entity_loop_name(identifier) ==
  CASE identifier = "PR" -> CLAIM_OTHER_SUBSCRIBER_OTHER_PAYER_NAME
    [] identifier \in {"DN", "P3"} ->
         CLAIM_OTHER_SUBSCRIBER_OTHER_PAYER_REFERRING_PROVIDER_NAME
    [] identifier = "82" ->
         CLAIM_OTHER_SUBSCRIBER_OTHER_PAYER_RENDERING_PROVIDER_NAME
    [] identifier = "77" ->
         CLAIM_OTHER_SUBSCRIBER_OTHER_PAYER_SERVICE_FACILITY_LOCATION
    [] identifier = "DQ" ->
         CLAIM_OTHER_SUBSCRIBER_OTHER_PAYER_SUPERVISING_PROVIDER_NAME
    [] identifier = "85" ->
         CLAIM_OTHER_SUBSCRIBER_OTHER_PAYER_BILLING_PROVIDER_NAME
    [] OTHER -> ""

\* Mutation of set_other_subscriber_entities_loop: the guard of
\* set_other_subscriber_loop ("loop_23" in context.loop_name) in place of
\* the loop_2320 / loop_2330 guard.
set_other_subscriber_entities_loop_in_23(c, d) ==
  IF InLoopName(LOOP_23, c.loop_name)
  THEN LET name == other_subscriber_entity_loop_name(d.entity_identifier_code)
           claim == get_claim(c)
       IN IF name = "" THEN Raise(c)
          ELSE IF claim = None THEN Raise(c)
          ELSE LET o == get_other_subscriber(c, claim)
                   c1 == SetChild(o.ctx, o.rec, name, {"ref_segment"})
               IN set_loop_context(c1, name, Len(c1.heap))
  ELSE c

set_other_subscriber_entities_loop(c, d) ==
  IF InLoopName(Chars[CLAIM_OTHER_SUBSCRIBER_INFORMATION], c.loop_name)
     \/ InLoopName(LOOP_2330, c.loop_name)
  THEN LET name == other_subscriber_entity_loop_name(d.entity_identifier_code)
           claim == get_claim(c)
       IN IF name = "" THEN Raise(c)
          ELSE IF claim = None THEN Raise(c)
          ELSE LET o == get_other_subscriber(c, claim)
                   c1 == SetChild(o.ctx, o.rec, name, {"ref_segment"})
               IN set_loop_context(c1, name, Len(c1.heap))
  ELSE c

\* Mutation of set_service_line_loop: the list is assigned anew on every LX
\* (claim[loop_2400] = []) instead of being created when absent.
set_service_line_loop_overwriting(c, d) ==
  LET claim == get_claim(c) IN
  IF claim = None THEN Raise(c)
  ELSE LET c1 == AppendChild(ResetList(c, claim, CLAIM_SERVICE_LINE), claim,
                             CLAIM_SERVICE_LINE,
                             {"pwk_segment", "crc_segment", "dtp_segment",
                              "qty_segment", "mea_segment", "ref_segment",
                              "amt_segment", "k3_segment", "nte_segment"})
       IN set_loop_context(c1, CLAIM_SERVICE_LINE, Len(c1.heap))

set_service_line_loop(c, d) ==
  LET claim == get_claim(c) IN
  IF claim = None THEN Raise(c)
  ELSE LET c1 == AppendChild(c, claim, CLAIM_SERVICE_LINE,
                             {"pwk_segment", "crc_segment", "dtp_segment",
                              "qty_segment", "mea_segment", "ref_segment",
                              "amt_segment", "k3_segment", "nte_segment"})
       IN set_loop_context(c1, CLAIM_SERVICE_LINE, Len(c1.heap))

set_drug_identification_loop(c, d) ==
  IF InLoopName(LOOP_24, c.loop_name)
  THEN LET sl == get_service_line(c) IN
       IF sl = None THEN Raise(c)
       ELSE LET c1 == SetChild(c, sl,
                               CLAIM_SERVICE_LINE_DRUG_IDENTIFICATION_NAME, {})
            IN set_loop_context(c1,
                                CLAIM_SERVICE_LINE_DRUG_IDENTIFICATION_NAME,
                                Len(c1.heap))
  ELSE c

service_line_entity_loop_name(identifier) ==
  CASE identifier = "82" -> CLAIM_SERVICE_LINE_RENDERING_PROVIDER_NAME
    [] identifier = "QB" -> CLAIM_SERVICE_LINE_PURCHASED_SERVICE_PROVIDER_NAME
    [] identifier = "77" -> CLAIM_SERVICE_LINE_SERVICE_FACILITY_LOCATION_NAME
    [] identifier = "DQ" -> CLAIM_SERVICE_LINE_SUPERVISING_PROVIDER_NAME
    [] identifier = "DK" -> CLAIM_SERVICE_LINE_ORDERING_PROVIDER_NAME
    [] identifier \in {"DN", "P3"} -> CLAIM_SERVICE_LINE_REFERRING_PROVIDER_NAME
    [] OTHER -> ""

\* Mutation of set_service_line_entities_loop: the cursor guard is left out.
set_service_line_entities_loop_unguarded(c, d) ==
  LET name == service_line_entity_loop_name(d.entity_identifier_code)
      sl == get_service_line(c)
  IN IF name = "" THEN Raise(c)
     ELSE IF sl = None THEN Raise(c)
     ELSE LET c1 == SetChild(c, sl, name, {"ref_segment"})
          IN set_loop_context(c1, name, Len(c1.heap))

set_service_line_entities_loop(c, d) ==
  IF InLoopName(LOOP_24, c.loop_name)
  THEN LET name == service_line_entity_loop_name(d.entity_identifier_code)
           sl == get_service_line(c)
       IN IF name = "" THEN Raise(c)
          ELSE IF sl = None THEN Raise(c)
          ELSE LET c1 == SetChild(c, sl, name, {"ref_segment"})
               IN set_loop_context(c1, name, Len(c1.heap))
  ELSE c

set_ambulance_service_line_loop(c, d) ==
  IF InLoopName(LOOP_24, c.loop_name)
  THEN LET sl == get_service_line(c)
           name == IF d.entity_identifier_code = "PW"
                   THEN CLAIM_SERVICE_LINE_AMBULANCE_PICKUP_LOCATION
                   ELSE CLAIM_SERVICE_LINE_AMBULANCE_DROPOFF_LOCATION
       IN IF sl = None THEN Raise(c)
          ELSE LET c1 == SetChild(c, sl, name, {})
               IN set_loop_context(c1, name, Len(c1.heap))
  ELSE c

set_service_line_adjudication_loop(c, d) ==
  LET sl == get_service_line(c) IN
  IF sl = None THEN Raise(c)
  ELSE LET c0 == IF Truthy(CLAIM_SERVICE_LINE_LINE_ADJUDICATION_INFORMATION)
                 THEN ResetList(c, sl,
                        CLAIM_SERVICE_LINE_LINE_ADJUDICATION_INFORMATION)
                 ELSE c
           c1 == AppendChild(c0, sl,
                   CLAIM_SERVICE_LINE_LINE_ADJUDICATION_INFORMATION,
                   {"cas_segment"})
       IN set_loop_context(c1,
            CLAIM_SERVICE_LINE_LINE_ADJUDICATION_INFORMATION, Len(c1.heap))

set_form_identification_loop(c, d) ==
  LET sl == get_service_line(c) IN
  IF sl = None THEN Raise(c)
  ELSE LET c1 == AppendChild(c, sl,
                   CLAIM_SERVICE_LINE_LINE_FORM_IDENTIFICATION,
                   {"frm_segment"})
       IN set_loop_context(c1, CLAIM_SERVICE_LINE_LINE_FORM_IDENTIFICATION,
                           Len(c1.heap))

\* Mutation of set_se_loop: the cursor is moved from the header loop alone.
set_se_loop_from_header(c, d) ==
  IF c.loop_name = HEADER
  THEN set_loop_context(c, FOOTER, c.heap[transaction_data].one[FOOTER])
  ELSE c

set_se_loop(c, d) ==
  set_loop_context(c, FOOTER, c.heap[transaction_data].one[FOOTER])

(* ---------------- the parser (linuxforhealth.x12.parsing) -------------- *)
\* The handlers in the order the module registers them with @match; `field`
\* and `values` are the decorator's conditions ("" when it has none).
LoopParsers == <<
  [f |-> "set_header_loop", segment |-> "ST", field |-> "", values |-> {}],
  [f |-> "set_submitter_name_loop", segment |-> "NM1",
   field |-> "entity_identifier_code", values |-> {"41"}],
  [f |-> "set_receiver_name_loop", segment |-> "NM1",
   field |-> "entity_identifier_code", values |-> {"40"}],
  [f |-> "set_billing_provider_loop", segment |-> "HL",
   field |-> "hierarchical_level_code", values |-> {"20"}],
  [f |-> "set_billing_provider_name_loop", segment |-> "NM1",
   field |-> "entity_identifier_code", values |-> {"85"}],
  [f |-> "set_pay_to_address_name_loop", segment |-> "NM1",
   field |-> "entity_identifier_code", values |-> {"87"}],
  [f |-> "set_pay_to_plan_name_loop", segment |-> "NM1",
   field |-> "entity_identifier_code", values |-> {"PE"}],
  [f |-> "set_subscriber_loop", segment |-> "HL",
   field |-> "hierarchical_level_code", values |-> {"22"}],
  [f |-> "set_subscriber_name_loop", segment |-> "NM1",
   field |-> "entity_identifier_code", values |-> {"IL"}],
  [f |-> "set_subscriber_payer_name_loop", segment |-> "NM1",
   field |-> "entity_identifier_code", values |-> {"PR"}],
  [f |-> "set_patient_loop", segment |-> "HL",
   field |-> "hierarchical_level_code", values |-> {"23"}],
  [f |-> "set_patient_name_loop", segment |-> "NM1",
   field |-> "entity_identifier_code", values |-> {"QC"}],
  [f |-> "set_claim_loop", segment |-> "CLM", field |-> "", values |-> {}],
  [f |-> "set_claim_entity_loop", segment |-> "NM1",
   field |-> "entity_identifier_code",
   values |-> {"DN", "P3", "82", "77", "DQ"}],
  [f |-> "set_ambulance_loop", segment |-> "NM1",
   field |-> "entity_identifier_code", values |-> {"PW", "45"}],
  [f |-> "set_other_subscriber_loop", segment |-> "SBR",
   field |-> "", values |-> {}],
  [f |-> "set_other_subscriber_name_loop", segment |-> "NM1",
   field |-> "entity_identifier_code", values |-> {"IL"}],
  [f |-> "set_other_subscriber_entities_loop", segment |-> "NM1",
   field |-> "entity_identifier_code",
   values |-> {"PR", "DN", "P3", "82", "77", "DQ", "85"}],
  [f |-> "set_service_line_loop", segment |-> "LX",
   field |-> "", values |-> {}],
  [f |-> "set_drug_identification_loop", segment |-> "LIN",
   field |-> "", values |-> {}],
  [f |-> "set_service_line_entities_loop", segment |-> "NM1",
   field |-> "entity_identifier_code",
   values |-> {"82", "QB", "77", "DQ", "DK", "DN", "P3"}],
  [f |-> "set_ambulance_service_line_loop", segment |-> "NM1",
   field |-> "entity_identifier_code", values |-> {"PW", "45"}],
  [f |-> "set_service_line_adjudication_loop", segment |-> "SVD",
   field |-> "", values |-> {}],
  [f |-> "set_form_identification_loop", segment |-> "LQ",
   field |-> "", values |-> {}],
  [f |-> "set_se_loop", segment |-> "SE", field |-> "", values |-> {}] >>

Apply(f, c, d) ==
  CASE f = "set_header_loop" -> set_header_loop(c, d)
    [] f = "set_submitter_name_loop" -> set_submitter_name_loop(c, d)
    [] f = "set_receiver_name_loop" -> set_receiver_name_loop(c, d)
    [] f = "set_billing_provider_loop" -> set_billing_provider_loop(c, d)
    [] f = "set_billing_provider_name_loop" ->
         set_billing_provider_name_loop(c, d)
    [] f = "set_pay_to_address_name_loop" -> set_pay_to_address_name_loop(c, d)
    [] f = "set_pay_to_plan_name_loop" -> set_pay_to_plan_name_loop(c, d)
    [] f = "set_subscriber_loop" -> set_subscriber_loop(c, d)
    [] f = "set_subscriber_name_loop" -> set_subscriber_name_loop(c, d)
    [] f = "set_subscriber_payer_name_loop" ->
         set_subscriber_payer_name_loop(c, d)
    [] f = "set_patient_loop" -> set_patient_loop(c, d)
    [] f = "set_patient_name_loop" -> set_patient_name_loop(c, d)
    [] f = "set_claim_loop" -> set_claim_loop(c, d)
    [] f = "set_claim_entity_loop" -> set_claim_entity_loop(c, d)
    [] f = "set_ambulance_loop" -> set_ambulance_loop(c, d)
    [] f = "set_other_subscriber_loop" -> set_other_subscriber_loop(c, d)
    [] f = "set_other_subscriber_name_loop" ->
         set_other_subscriber_name_loop(c, d)
    [] f = "set_other_subscriber_entities_loop" ->
         set_other_subscriber_entities_loop(c, d)
    [] f = "set_service_line_loop" -> set_service_line_loop(c, d)
    [] f = "set_drug_identification_loop" -> set_drug_identification_loop(c, d)
    [] f = "set_service_line_entities_loop" ->
         set_service_line_entities_loop(c, d)
    [] f = "set_ambulance_service_line_loop" ->
         set_ambulance_service_line_loop(c, d)
    [] f = "set_service_line_adjudication_loop" ->
         set_service_line_adjudication_loop(c, d)
    [] f = "set_form_identification_loop" -> set_form_identification_loop(c, d)
    [] f = "set_se_loop" -> set_se_loop(c, d)

\* The @match decorator: the handler runs when the segment name and the
\* conditions on the segment's fields match.
is_match(r, d) ==
  /\ r.segment = d.name
  /\ (r.field = "" \/ d[r.field] \in r.values)

\* The handlers registered for the segment whose conditions match it, in
\* registration order.
matching(d) == SelectSeq(LoopParsers, LAMBDA r : is_match(r, d))

\* Every matching handler is called, in registration order, until one raises.
RECURSIVE parse_loop(_, _, _)
parse_loop(c, d, fs) ==
  IF fs = <<>> \/ c.error THEN c
  ELSE parse_loop(Apply(Head(fs).f, c, d), d, Tail(fs))

\* The parser keeps the HL segment it is processing as context.hl_segment.
cache_hl(c, d) ==
  IF d.name = "HL"
  THEN [c EXCEPT !.hl_segment =
          [hierarchical_level_code |-> d.hierarchical_level_code,
           hierarchical_child_code |-> d.hierarchical_child_code]]
  ELSE c

\* The segment is stored in the current loop container under
\* "<name>_segment"; the model keeps the level code of an hl_segment, which
\* _is_patient_a_dependent reads.
assign_segment(c, d) ==
  IF d.name = "HL"
  THEN [c EXCEPT !.heap[c.loop_container].hl = d.hierarchical_level_code]
  ELSE c

\* X12Parser.parse for one decoded segment
parse(c, d) ==
  LET c1 == parse_loop(cache_hl(c, d), d, matching(d))
  IN IF c1.error THEN c1 ELSE assign_segment(c1, d)

(* ======================================================================= *)
(* support.py: convenience functions                                        *)
(* ======================================================================= *)
\* A Python str is the sequence of its characters. An argument that may be
\* None is a record: `none` tells whether it is None, `s` is the str.
Str(s) == [none |-> FALSE, s |-> s]

PyNone == [none |-> TRUE, s |-> <<>>]

\* A returned value, or the name of the exception raised.
Return(v) == [raised |-> "", value |-> v]

RaiseError(e) == [raised |-> e, value |-> <<>>]

\* Variation of X12_IMPLEMENTATION_VERSIONS: 005010X223 is mapped to the next
\* addendum 005010X223A1, not to the latest one.
X12_IMPLEMENTATION_VERSIONS_next_addendum ==
     <<"0", "0", "5", "0", "1", "0", "X", "2", "2", "0">> :> <<"0", "0", "5", "0", "1", "0", "X", "2", "2", "0", "A", "1">>
  @@ <<"0", "0", "5", "0", "1", "0", "X", "2", "2", "0", "A", "1">> :> <<"0", "0", "5", "0", "1", "0", "X", "2", "2", "0", "A", "1">>
  @@ <<"0", "0", "5", "0", "1", "0", "X", "2", "1", "2">> :> <<"0", "0", "5", "0", "1", "0", "X", "2", "1", "2">>
  @@ <<"0", "0", "5", "0", "1", "0", "X", "2", "2", "1">> :> <<"0", "0", "5", "0", "1", "0", "X", "2", "2", "1", "A", "1">>
  @@ <<"0", "0", "5", "0", "1", "0", "X", "2", "2", "1", "A", "1">> :> <<"0", "0", "5", "0", "1", "0", "X", "2", "2", "1", "A", "1">>
  @@ <<"0", "0", "5", "0", "1", "0", "X", "2", "7", "9">> :> <<"0", "0", "5", "0", "1", "0", "X", "2", "7", "9", "A", "1">>
  @@ <<"0", "0", "5", "0", "1", "0", "X", "2", "7", "9", "A", "1">> :> <<"0", "0", "5", "0", "1", "0", "X", "2", "7", "9", "A", "1">>
  @@ <<"0", "0", "4", "0", "1", "0", "X", "0", "9", "6">> :> <<"0", "0", "4", "0", "1", "0", "X", "0", "9", "6", "A", "1">>
  @@ <<"0", "0", "4", "0", "1", "0", "X", "0", "9", "6", "A", "1">> :> <<"0", "0", "4", "0", "1", "0", "X", "0", "9", "6", "A", "1">>
  @@ <<"0", "0", "5", "0", "1", "0", "X", "2", "2", "3">> :> <<"0", "0", "5", "0", "1", "0", "X", "2", "2", "3", "A", "1">>
  @@ <<"0", "0", "5", "0", "1", "0", "X", "2", "2", "3", "A", "1">> :> <<"0", "0", "5", "0", "1", "0", "X", "2", "2", "3", "A", "3">>
  @@ <<"0", "0", "5", "0", "1", "0", "X", "2", "2", "3", "A", "2">> :> <<"0", "0", "5", "0", "1", "0", "X", "2", "2", "3", "A", "3">>
  @@ <<"0", "0", "5", "0", "1", "0", "X", "2", "2", "3", "A", "3">> :> <<"0", "0", "5", "0", "1", "0", "X", "2", "2", "3", "A", "3">>
  @@ <<"0", "0", "4", "0", "1", "0", "X", "0", "9", "8">> :> <<"0", "0", "4", "0", "1", "0", "X", "0", "9", "8", "A", "1">>
  @@ <<"0", "0", "4", "0", "1", "0", "X", "0", "9", "8", "A", "1">> :> <<"0", "0", "4", "0", "1", "0", "X", "0", "9", "8", "A", "1">>
  @@ <<"0", "0", "5", "0", "1", "0", "X", "2", "2", "2">> :> <<"0", "0", "5", "0", "1", "0", "X", "2", "2", "2", "A", "2">>
  @@ <<"0", "0", "5", "0", "1", "0", "X", "2", "2", "2", "A", "1">> :> <<"0", "0", "5", "0", "1", "0", "X", "2", "2", "2", "A", "2">>
  @@ <<"0", "0", "5", "0", "1", "0", "X", "2", "2", "2", "A", "2">> :> <<"0", "0", "5", "0", "1", "0", "X", "2", "2", "2", "A", "2">>

X12_IMPLEMENTATION_VERSIONS ==
     <<"0", "0", "5", "0", "1", "0", "X", "2", "2", "0">> :> <<"0", "0", "5", "0", "1", "0", "X", "2", "2", "0", "A", "1">>
  @@ <<"0", "0", "5", "0", "1", "0", "X", "2", "2", "0", "A", "1">> :> <<"0", "0", "5", "0", "1", "0", "X", "2", "2", "0", "A", "1">>
  @@ <<"0", "0", "5", "0", "1", "0", "X", "2", "1", "2">> :> <<"0", "0", "5", "0", "1", "0", "X", "2", "1", "2">>
  @@ <<"0", "0", "5", "0", "1", "0", "X", "2", "2", "1">> :> <<"0", "0", "5", "0", "1", "0", "X", "2", "2", "1", "A", "1">>
  @@ <<"0", "0", "5", "0", "1", "0", "X", "2", "2", "1", "A", "1">> :> <<"0", "0", "5", "0", "1", "0", "X", "2", "2", "1", "A", "1">>
  @@ <<"0", "0", "5", "0", "1", "0", "X", "2", "7", "9">> :> <<"0", "0", "5", "0", "1", "0", "X", "2", "7", "9", "A", "1">>
  @@ <<"0", "0", "5", "0", "1", "0", "X", "2", "7", "9", "A", "1">> :> <<"0", "0", "5", "0", "1", "0", "X", "2", "7", "9", "A", "1">>
  @@ <<"0", "0", "4", "0", "1", "0", "X", "0", "9", "6">> :> <<"0", "0", "4", "0", "1", "0", "X", "0", "9", "6", "A", "1">>
  @@ <<"0", "0", "4", "0", "1", "0", "X", "0", "9", "6", "A", "1">> :> <<"0", "0", "4", "0", "1", "0", "X", "0", "9", "6", "A", "1">>
  @@ <<"0", "0", "5", "0", "1", "0", "X", "2", "2", "3">> :> <<"0", "0", "5", "0", "1", "0", "X", "2", "2", "3", "A", "3">>
  @@ <<"0", "0", "5", "0", "1", "0", "X", "2", "2", "3", "A", "1">> :> <<"0", "0", "5", "0", "1", "0", "X", "2", "2", "3", "A", "3">>
  @@ <<"0", "0", "5", "0", "1", "0", "X", "2", "2", "3", "A", "2">> :> <<"0", "0", "5", "0", "1", "0", "X", "2", "2", "3", "A", "3">>
  @@ <<"0", "0", "5", "0", "1", "0", "X", "2", "2", "3", "A", "3">> :> <<"0", "0", "5", "0", "1", "0", "X", "2", "2", "3", "A", "3">>
  @@ <<"0", "0", "4", "0", "1", "0", "X", "0", "9", "8">> :> <<"0", "0", "4", "0", "1", "0", "X", "0", "9", "8", "A", "1">>
  @@ <<"0", "0", "4", "0", "1", "0", "X", "0", "9", "8", "A", "1">> :> <<"0", "0", "4", "0", "1", "0", "X", "0", "9", "8", "A", "1">>
  @@ <<"0", "0", "5", "0", "1", "0", "X", "2", "2", "2">> :> <<"0", "0", "5", "0", "1", "0", "X", "2", "2", "2", "A", "2">>
  @@ <<"0", "0", "5", "0", "1", "0", "X", "2", "2", "2", "A", "1">> :> <<"0", "0", "5", "0", "1", "0", "X", "2", "2", "2", "A", "2">>
  @@ <<"0", "0", "5", "0", "1", "0", "X", "2", "2", "2", "A", "2">> :> <<"0", "0", "5", "0", "1", "0", "X", "2", "2", "2", "A", "2">>

\* Variation of get_latest_implementation_version: a version the table does
\* not hold is returned as it is.
get_latest_implementation_version_or_input(requested_version) ==
  IF requested_version \notin DOMAIN X12_IMPLEMENTATION_VERSIONS
  THEN Return(requested_version)
  ELSE Return(X12_IMPLEMENTATION_VERSIONS[requested_version])

get_latest_implementation_version(requested_version) ==
  IF requested_version \notin DOMAIN X12_IMPLEMENTATION_VERSIONS
  THEN RaiseError("KeyError")
  ELSE Return(X12_IMPLEMENTATION_VERSIONS[requested_version])

\* s[i:j] of a str, for 0 <= i <= j
Slice(s, i, j) ==
  SubSeq(s, i + 1, IF j < Len(s) THEN j ELSE Len(s))

\* s.startswith(prefix)
StartsWith(s, prefix) ==
  Len(s) >= Len(prefix) /\ SubSeq(s, 1, Len(prefix)) = prefix

ISA == <<"I", "S", "A">>

is_x12_data(input_data) ==
  IF input_data.none \/ input_data.s = <<>> THEN FALSE
  ELSE StartsWith(input_data.s, ISA)

\* Variation of parse_x12_major_version: the slice starts one character late.
parse_x12_major_version_from_3(x12_implementation_version) ==
  IF x12_implementation_version.none \/ Len(x12_implementation_version.s) < 6
  THEN <<>>
  ELSE Slice(x12_implementation_version.s, 3, 7)

parse_x12_major_version(x12_implementation_version) ==
  IF x12_implementation_version.none \/ Len(x12_implementation_version.s) < 6
  THEN <<>>
  ELSE Slice(x12_implementation_version.s, 2, 6)


(* ---------------- support.py: count_segments --------------------------- *)
\* A value of a X12 data model with the key it is stored under (the empty
\* str for the root and for the item of a list): a dict or a pydantic model
\* with its entries in order, a list with its items, None, or a str.
Value(k, type, items) == [k |-> k, type |-> type, items |-> items]

SEGMENT_SUFFIX == <<"_", "s", "e", "g", "m", "e", "n", "t">>

\* s.endswith(suffix)
EndsWith(s, suffix) ==
  Len(s) >= Len(suffix)
  /\ SubSeq(s, Len(s) - Len(suffix) + 1, Len(s)) = suffix

\* BaseModel.dict(): the model and every model below it as a dict
RECURSIVE dict(_)
dict(v) ==
  [k |-> v.k,
   type |-> IF v.type = "model" THEN "dict" ELSE v.type,
   items |-> [i \in DOMAIN v.items |-> dict(v.items[i])]]

\* The AttributeError of values.items() on a value that is no dict; the
\* value is a filler.
RaiseAttributeError == [raised |-> "AttributeError", value |-> 0]

\* The sum of the counts, or the error that one of them raised
RECURSIVE SumCounts(_)
SumCounts(counts) ==
  IF counts = <<>> THEN Return(0)
  ELSE LET rest == SumCounts(Tail(counts))
       IN IF Head(counts).raised # "" THEN Head(counts)
          ELSE IF rest.raised # "" THEN rest
          ELSE Return(Head(counts).value + rest.value)

\* Variation of count_segments: a list of segments counts as one record.
RECURSIVE count_segments_one_per_key(_)
count_segments_one_per_key(values) ==
  IF values.type # "dict" THEN RaiseAttributeError
  ELSE LET count(v) ==
             IF EndsWith(v.k, SEGMENT_SUFFIX) /\ v.type = "dict" THEN Return(1)
             ELSE IF EndsWith(v.k, SEGMENT_SUFFIX) /\ v.type = "list"
                  THEN Return(IF v.items = <<>> THEN 0 ELSE 1)
             ELSE IF v.type = "model" THEN count_segments_one_per_key(dict(v))
             ELSE IF v.type = "list"
                  THEN SumCounts([i \in DOMAIN v.items |->
                         IF v.items[i].type = "model"
                         THEN count_segments_one_per_key(dict(v.items[i]))
                         ELSE count_segments_one_per_key(v.items[i])])
             ELSE IF v.type = "dict" THEN count_segments_one_per_key(v)
             ELSE Return(0)
       IN SumCounts([i \in DOMAIN values.items |-> count(values.items[i])])

\* Variation of count_segments: the items of a list of loops are not counted.
RECURSIVE count_segments_without_lists(_)
count_segments_without_lists(values) ==
  IF values.type # "dict" THEN RaiseAttributeError
  ELSE LET count(v) ==
             IF EndsWith(v.k, SEGMENT_SUFFIX) /\ v.type = "dict" THEN Return(1)
             ELSE IF EndsWith(v.k, SEGMENT_SUFFIX) /\ v.type = "list"
                  THEN Return(Len(v.items))
             ELSE IF v.type = "model"
                  THEN count_segments_without_lists(dict(v))
             ELSE IF v.type = "dict" THEN count_segments_without_lists(v)
             ELSE Return(0)
       IN SumCounts([i \in DOMAIN values.items |-> count(values.items[i])])

\* count_segments: the result is the count, or the AttributeError raised
\* where a value that has no items() is taken for a dict.
RECURSIVE count_segments(_)
count_segments(values) ==
  IF values.type # "dict" THEN RaiseAttributeError
  ELSE LET count(v) ==
             IF EndsWith(v.k, SEGMENT_SUFFIX) /\ v.type = "dict" THEN Return(1)
             ELSE IF EndsWith(v.k, SEGMENT_SUFFIX) /\ v.type = "list"
                  THEN Return(Len(v.items))
             ELSE IF v.type = "model" THEN count_segments(dict(v))
             ELSE IF v.type = "list"
                  THEN SumCounts([i \in DOMAIN v.items |->
                         IF v.items[i].type = "model"
                         THEN count_segments(dict(v.items[i]))
                         ELSE count_segments(v.items[i])])
             ELSE IF v.type = "dict" THEN count_segments(v)
             ELSE Return(0)
       IN SumCounts([i \in DOMAIN values.items |-> count(values.items[i])])


(* ======================================================================= *)
(* models.py: serialization of segments and segment groups                  *)
(* ======================================================================= *)
\* X12Delimiters(): the default delimiters
X12Delimiters ==
  [element_separator |-> "*", repetition_separator |-> "^",
   segment_terminator |-> "~", component_separator |-> ":"]

\* None where an Optional[X12Delimiters] is expected
NoDelimiters ==
  [element_separator |-> "", repetition_separator |-> "",
   segment_terminator |-> "", component_separator |-> ""]

\* The values a segment field holds: None, a str, a list of strs (a
\* composite or a repeating element), a Decimal coeff / 10^scale, a
\* datetime.date, a datetime.datetime and a datetime.time.
VNone ==
  [type |-> "NoneType", s |-> <<>>, is_component |-> FALSE, coeff |-> 0,
   scale |-> 0, year |-> 0, month |-> 0, day |-> 0, hour |-> 0, minute |-> 0]

VStr(s) == [VNone EXCEPT !.type = "str", !.s = s]

VList(items, is_component) ==
  [VNone EXCEPT !.type = "list", !.s = items, !.is_component = is_component]

VDecimal(coeff, scale) ==
  [VNone EXCEPT !.type = "Decimal", !.coeff = coeff, !.scale = scale]

VDate(year, month, day) ==
  [VNone EXCEPT !.type = "date", !.year = year, !.month = month, !.day = day]

VDatetime(year, month, day, hour, minute) ==
  [VNone EXCEPT !.type = "datetime", !.year = year, !.month = month,
                !.day = day, !.hour = hour, !.minute = minute]

VTime(hour, minute) ==
  [VNone EXCEPT !.type = "time", !.hour = hour, !.minute = minute]

\* sep.join(strs) for a str sep
RECURSIVE JoinStr(_, _)
JoinStr(sep, strs) ==
  IF strs = <<>> THEN <<>>
  ELSE IF Len(strs) = 1 THEN strs[1]
  ELSE strs[1] \o sep \o JoinStr(sep, Tail(strs))

\* sep.join(strs) for a one-character sep
Join(sep, strs) == JoinStr(<<sep>>, strs)

\* Variation of RStrip: one trailing character at most is removed.
RStripOne(s, ch) ==
  IF s # <<>> /\ s[Len(s)] = ch THEN SubSeq(s, 1, Len(s) - 1) ELSE s

\* s.rstrip(ch) for a one-character ch
RECURSIVE RStrip(_, _)
RStrip(s, ch) ==
  IF s # <<>> /\ s[Len(s)] = ch THEN RStrip(SubSeq(s, 1, Len(s) - 1), ch)
  ELSE s

Pow10(n) == IF n = 0 THEN 1 ELSE IF n = 1 THEN 10 ELSE IF n = 2 THEN 100
            ELSE IF n = 3 THEN 1000 ELSE 10000

DigitChars == <<"0", "1", "2", "3", "4", "5", "6", "7", "8", "9">>

\* str(n) for n >= 0
RECURSIVE IntStr(_)
IntStr(n) ==
  IF n < 10 THEN <<DigitChars[n + 1]>>
  ELSE IntStr(n \div 10) \o <<DigitChars[(n % 10) + 1]>>

DigitValue ==
  [ch \in {"0", "1", "2", "3", "4", "5", "6", "7", "8", "9"} |->
     CHOOSE n \in 0..9 : DigitChars[n + 1] = ch]

\* int(s) for a str of digits ("" gives 0)
RECURSIVE StrInt(_)
StrInt(s) ==
  IF s = <<>> THEN 0
  ELSE 10 * StrInt(SubSeq(s, 1, Len(s) - 1)) + DigitValue[s[Len(s)]]

\* The Decimal coeff / 10^scale in hundredths, rounded half to even as
\* Decimal.__format__ rounds.
Hundredths(coeff, scale) ==
  IF scale <= 2 THEN coeff * Pow10(2 - scale)
  ELSE LET unit == Pow10(scale - 2)
           q == coeff \div unit
           r == coeff % unit
       IN IF 2 * r > unit \/ (2 * r = unit /\ q % 2 = 1) THEN q + 1 ELSE q

\* "{:.2f}".format(v) for a Decimal v >= 0
FormatDecimal(v) ==
  LET h == Hundredths(v.coeff, v.scale)
  IN IntStr(h \div 100) \o <<".">>
       \o <<DigitChars[((h \div 10) % 10) + 1], DigitChars[(h % 10) + 1]>>

(* ---------------- support.py: dates ------------------------------------- *)
\* A raised ValueError; the value is a filler.
RaiseValueError == [raised |-> "ValueError", value |-> VNone]

IsDigits(s) == \A i \in DOMAIN s : s[i] \in DOMAIN DigitValue

IsLeap(year) == year % 4 = 0 /\ (year % 100 # 0 \/ year % 400 = 0)

DaysInMonth(year, month) ==
  IF month = 2 THEN (IF IsLeap(year) THEN 29 ELSE 28)
  ELSE IF month \in {4, 6, 9, 11} THEN 30 ELSE 31

\* datetime.datetime.strptime(date_string, format) for a str of digits and
\* the formats "%y%m%d", "%Y%m%d" and "%Y%m%d%H%M". Every directive of a
\* str of digits that has the length of the format takes its full width:
\* %y two digits, %Y four, the others two. %y is resolved as the library
\* resolves it: 00..68 is 2000..2068, 69..99 is 1969..1999.
strptime(date_string, format) ==
  LET four_digit_year == format # "%y%m%d"
      timed == format = "%Y%m%d%H%M"
      ylen == IF four_digit_year THEN 4 ELSE 2
      len == ylen + 4 + (IF timed THEN 4 ELSE 0)
      field(i, n) == StrInt(SubSeq(date_string, i, i + n - 1))
      y == field(1, ylen)
      year == IF four_digit_year THEN y
              ELSE IF y <= 68 THEN y + 2000 ELSE y + 1900
      month == field(ylen + 1, 2)
      day == field(ylen + 3, 2)
      hour == IF timed THEN field(ylen + 5, 2) ELSE 0
      minute == IF timed THEN field(ylen + 7, 2) ELSE 0
  IN IF Len(date_string) # len \/ ~IsDigits(date_string) THEN RaiseValueError
     ELSE IF \/ year < 1
             \/ month \notin 1..12
             \/ day \notin 1..DaysInMonth(year, month)
             \/ hour > 23
             \/ minute > 59
          THEN RaiseValueError
     ELSE Return(VDatetime(year, month, day, hour, minute))

\* datetime.datetime.date()
date(v) == VDate(v.year, v.month, v.day)

parse_interchange_date(date_string) ==
  LET parsed == strptime(date_string, "%y%m%d")
  IN IF parsed.raised # "" THEN parsed ELSE Return(date(parsed.value))

\* parse_x12_date: `date_string` is a str or None.
\* Variation of parse_x12_date: a str of any other length is an error.
parse_x12_date_bad_length(date_string) ==
  IF date_string.none \/ date_string.s = <<>> THEN Return(VNone)
  ELSE IF Len(date_string.s) = 8
       THEN LET parsed == strptime(date_string.s, "%Y%m%d")
            IN IF parsed.raised # "" THEN parsed
               ELSE Return(date(parsed.value))
  ELSE IF Len(date_string.s) = 12 THEN strptime(date_string.s, "%Y%m%d%H%M")
  ELSE IF Len(date_string.s) \in {4, 6} THEN Return(VStr(date_string.s))
  ELSE RaiseValueError

parse_x12_date(date_string) ==
  IF date_string.none \/ date_string.s = <<>> THEN Return(VNone)
  ELSE IF Len(date_string.s) = 8
       THEN LET parsed == strptime(date_string.s, "%Y%m%d")
            IN IF parsed.raised # "" THEN parsed
               ELSE Return(date(parsed.value))
  ELSE IF Len(date_string.s) = 12 THEN strptime(date_string.s, "%Y%m%d%H%M")
  ELSE IF Len(date_string.s) \in {4, 6} THEN Return(VStr(date_string.s))
  ELSE Return(VNone)

TwoDigits(n) == <<DigitChars[(n \div 10) + 1], DigitChars[(n % 10) + 1]>>

\* %Y of strftime is the C library's: a year below 1000 is written with
\* leading zeros by some libraries and without by others (glibc), which
\* `zero_padded_year` tells.
strftime_Y(year, zero_padded_year) ==
  IF zero_padded_year
  THEN TwoDigits(year \div 100) \o TwoDigits(year % 100)
  ELSE IntStr(year)

\* v.strftime(format) for the formats "%Y%m%d%H%M", "%Y%m%d" and "%H%M"
strftime(v, format, zero_padded_year) ==
  IF format = "%H%M" THEN TwoDigits(v.hour) \o TwoDigits(v.minute)
  ELSE strftime_Y(v.year, zero_padded_year)
         \o TwoDigits(v.month) \o TwoDigits(v.day)
         \o (IF format = "%Y%m%d%H%M"
             THEN TwoDigits(v.hour) \o TwoDigits(v.minute) ELSE <<>>)

\* X12Segment._process_multivalue_field
process_multivalue_field(v, custom_delimiters) ==
  LET delimiters == IF custom_delimiters = NoDelimiters THEN X12Delimiters
                    ELSE custom_delimiters
      join_character == IF v.is_component THEN delimiters.component_separator
                        ELSE delimiters.repetition_separator
  IN Join(join_character, v.s)

\* X12Segment.x12: `self` holds the delimiters the segment carries, its
\* segment_name and its other fields in schema order; `zero_padded_year`
\* is the %Y of the C library the interpreter is built on.
X12Segment_x12_libc(self, custom_delimiters, zero_padded_year) ==
  LET delimiters == IF custom_delimiters = NoDelimiters THEN X12Delimiters
                    ELSE custom_delimiters
      value(v) == CASE v.type = "str" -> v.s
                    [] v.type = "list" -> process_multivalue_field(v, delimiters)
                    [] v.type = "datetime" ->
                         strftime(v, "%Y%m%d%H%M", zero_padded_year)
                    [] v.type = "date" -> strftime(v, "%Y%m%d", zero_padded_year)
                    [] v.type = "time" -> strftime(v, "%H%M", zero_padded_year)
                    [] v.type = "Decimal" -> FormatDecimal(v)
                    [] v.type = "NoneType" -> <<>>
      x12_values == <<self.segment_name>>
                      \o [i \in DOMAIN self.fields |-> value(self.fields[i])]
      x12_str == RStrip(Join(delimiters.element_separator, x12_values),
                        delimiters.element_separator)
  IN x12_str \o <<delimiters.segment_terminator>>

\* X12Segment.x12 of a segment that holds no date: the C library has no part
\* in it.
X12Segment_x12(self, custom_delimiters) ==
  X12Segment_x12_libc(self, custom_delimiters, FALSE)

\* The fields of a segment group whose type has an x12 method: None, one
\* item, or a list of items; an item is a segment or a nested group, and a
\* group is the sequence of its fields in schema order.
FNone == [kind |-> "None", v |-> <<>>]

FOne(item) == [kind |-> "one", v |-> <<item>>]

FList(items) == [kind |-> "list", v |-> items]

\* Filler of an item that is a group.
NoSegment == [delimiters |-> NoDelimiters, segment_name |-> <<>>, fields |-> <<>>]

SegmentItem(segment) == [kind |-> "segment", segment |-> segment, group |-> <<>>]

GroupItem(group) == [kind |-> "group", segment |-> NoSegment, group |-> group]

\* The concatenation of a sequence of sequences
RECURSIVE Concat(_)
Concat(ss) == IF ss = <<>> THEN <<>> ELSE Head(ss) \o Concat(Tail(ss))

\* Variation of X12SegmentGroup_x12: a nested group is always serialized
\* with use_new_lines=True, its default.
RECURSIVE X12SegmentGroup_x12_nested_default(_, _, _)
X12SegmentGroup_x12_nested_default(self, use_new_lines, custom_delimiters) ==
  LET delimiters == IF custom_delimiters = NoDelimiters THEN X12Delimiters
                    ELSE custom_delimiters
      item_x12(item) ==
        IF item.kind = "segment" THEN X12Segment_x12(item.segment, delimiters)
        ELSE X12SegmentGroup_x12_nested_default(item.group, TRUE, delimiters)
      field_x12(f) ==
        CASE f.kind = "None" -> <<>>
          [] f.kind = "list" -> [i \in DOMAIN f.v |-> item_x12(f.v[i])]
          [] f.kind = "one" -> <<item_x12(f.v[1])>>
      x12_segments == Concat([i \in DOMAIN self |-> field_x12(self[i])])
      join_char == IF use_new_lines THEN <<"\n">> ELSE <<>>
  IN JoinStr(join_char, x12_segments)

\* X12SegmentGroup.x12
RECURSIVE X12SegmentGroup_x12(_, _, _)
X12SegmentGroup_x12(self, use_new_lines, custom_delimiters) ==
  LET delimiters == IF custom_delimiters = NoDelimiters THEN X12Delimiters
                    ELSE custom_delimiters
      item_x12(item) ==
        IF item.kind = "segment" THEN X12Segment_x12(item.segment, delimiters)
        ELSE X12SegmentGroup_x12(item.group, use_new_lines, delimiters)
      field_x12(f) ==
        CASE f.kind = "None" -> <<>>
          [] f.kind = "list" -> [i \in DOMAIN f.v |-> item_x12(f.v[i])]
          [] f.kind = "one" -> <<item_x12(f.v[1])>>
      x12_segments == Concat([i \in DOMAIN self |-> field_x12(self[i])])
      join_char == IF use_new_lines THEN <<"\n">> ELSE <<>>
  IN JoinStr(join_char, x12_segments)

\* s.split(ch) for a one-character ch
RECURSIVE Split(_, _)
Split(s, ch) ==
  IF \A i \in DOMAIN s : s[i] # ch THEN <<s>>
  ELSE LET i == CHOOSE j \in DOMAIN s :
                  s[j] = ch /\ \A k \in 1..(j - 1) : s[k] # ch
       IN <<SubSeq(s, 1, i - 1)>> \o Split(SubSeq(s, i + 1, Len(s)), ch)

\* Decimal(text) for a text of digits with at most one decimal point
decode_decimal(text) ==
  LET parts == Split(text, ".")
      frac == IF Len(parts) > 1 THEN parts[2] ELSE <<>>
  IN VDecimal(StrInt(parts[1] \o frac), Len(frac))

\* The segment a wire segment decodes to: the text is cut at the segment
\* terminator and the element separators, and each element becomes the value
\* of the type its position has in `schema`.
decode_segment(wire, schema, delimiters) ==
  LET elements == Split(SubSeq(wire, 1, Len(wire) - 1),
                        delimiters.element_separator)
      value(i) == IF i > Len(elements) \/ elements[i] = <<>> THEN VNone
                  ELSE IF schema[i - 1] = "Decimal"
                       THEN decode_decimal(elements[i])
                  ELSE VStr(elements[i])
  IN [delimiters |-> delimiters, segment_name |-> elements[1],
      fields |-> [i \in DOMAIN schema |-> value(i + 1)]]

(* ---------------- the state machine ------------------------------------ *)
\* Dicts a run may allocate, the root, header and footer included.
MaxNodes == 9

Segment(name, code, level, child) ==
  [name |-> name, entity_identifier_code |-> code,
   hierarchical_level_code |-> level, hierarchical_child_code |-> child]

EntityCodes ==
  {"41", "40", "85", "87", "PE", "IL", "PR", "QC", "DN", "P3", "82", "77",
   "DQ", "PW", "45", "QB", "DK", "ZZ"}

\* The HL segments of the implementation guide: a billing provider level has
\* children, a subscriber level has (a dependent patient follows) or has not
\* (the subscriber is the patient), a patient level has none.
HLCodes == {<<"20", "1">>, <<"22", "0">>, <<"22", "1">>, <<"23", "0">>}

\* context.loop_name before the first segment is bound.
NoLoop == ""

\* No function has been called.
NoCall == [fn |-> "", arg |-> <<>>, result |-> <<>>]

\* A fresh context: transaction_data holds the header and the footer, the
\* cursor is nowhere, no record is cached.
Init ==
  /\ heap = << [NewDict({}) EXCEPT !.one = Put(Put(EmptyDict, HEADER, 2),
                                               FOOTER, 3)],
               NewDict({}), NewDict({}) >>
  /\ loop_name = NoLoop
  /\ loop_container = None
  /\ subscriber_record = None
  /\ patient_record = None
  /\ hl_segment = NoHL
  /\ error = FALSE
  /\ call = NoCall

\* A segment can be bound: the segment reader starts a transaction set with
\* its ST segment and ends it with its SE segment; nothing is parsed after an
\* exception.
Live == ~error /\ loop_name \notin {NoLoop, FOOTER}

\* X12ParserContext.reset_transaction: the per-transaction state is as it
\* was after construction. transaction_data is a new dict, and the dicts of
\* the transaction set that has ended are no longer part of the context.
reset_transaction(c) ==
  [c EXCEPT !.heap = << [NewDict({}) EXCEPT !.one = Put(Put(EmptyDict, HEADER, 2),
                                                       FOOTER, 3)],
                        NewDict({}), NewDict({}) >>,
            !.loop_name = NoLoop,
            !.loop_container = None,
            !.subscriber_record = None,
            !.patient_record = None,
            !.hl_segment = NoHL]

\* The context in which the ST segment of a transaction set is parsed: the
\* context is reset when the transaction set before it has ended.
Started ==
  IF loop_name = FOOTER THEN reset_transaction(Context) ELSE Context

\* One segment is parsed in context c0.
StepFrom(c0, d) ==
  /\ \E c \in {parse(c0, d)} :
     /\ Len(c.heap) <= MaxNodes
     /\ heap' = c.heap
     /\ loop_name' = c.loop_name
     /\ loop_container' = c.loop_container
     /\ subscriber_record' = c.subscriber_record
     /\ patient_record' = c.patient_record
     /\ hl_segment' = c.hl_segment
     /\ error' = c.error
  /\ UNCHANGED call

\* One segment is parsed.
Step(d) == StepFrom(Context, d)

\* A transaction set starts: the first one, or the next one after an SE.
ST ==
  /\ ~error
  /\ loop_name \in {NoLoop, FOOTER}
  /\ StepFrom(Started, Segment("ST", "", "", ""))

NM1 ==
  /\ Live
  /\ \E code \in EntityCodes : Step(Segment("NM1", code, "", ""))

HL ==
  /\ Live
  /\ \E hl \in HLCodes : Step(Segment("HL", "", hl[1], hl[2]))

CLM ==
  /\ Live
  /\ Step(Segment("CLM", "", "", ""))

SBR ==
  /\ Live
  /\ Step(Segment("SBR", "", "", ""))

LX ==
  /\ Live
  /\ Step(Segment("LX", "", "", ""))

LIN ==
  /\ Live
  /\ Step(Segment("LIN", "", "", ""))

SVD ==
  /\ Live
  /\ Step(Segment("SVD", "", "", ""))

LQ ==
  /\ Live
  /\ Step(Segment("LQ", "", "", ""))

SE ==
  /\ Live
  /\ Step(Segment("SE", "", "", ""))

Next == ST \/ NM1 \/ HL \/ CLM \/ SBR \/ LX \/ LIN \/ SVD \/ LQ \/ SE

Spec == Init /\ [][Next]_vars

(* ---------------- calls of the functions of support.py ------------------ *)
\* Length of the version strings tried beside the keys of the table.
MaxVersionLen == 7

\* Length of the input data tried.
MaxDataLen == 4

\* All strs over an alphabet, up to a length.
Strings(alphabet, n) == UNION { [1..m -> alphabet] : m \in 0..n }

\* The versions of the table, every prefix of one, and every one followed by
\* one more character.
VersionInputs ==
  UNION { { SubSeq(k, 1, n) : n \in 0..Len(k) }
          \cup { k \o <<ch>> : ch \in {"A", "1", " "} } :
          k \in DOMAIN X12_IMPLEMENTATION_VERSIONS }

MajorVersionInputs ==
  {PyNone}
  \cup { Str(v) : v \in DOMAIN X12_IMPLEMENTATION_VERSIONS
                       \cup Strings({"0", "5"}, MaxVersionLen) }

DataInputs ==
  {PyNone} \cup { Str(v) : v \in Strings({"I", "S", "A", " "}, MaxDataLen) }

\* The parser context, which a call of these functions does not involve.
context_vars == <<heap, loop_name, loop_container, subscriber_record,
                  patient_record, hl_segment, error>>

GetLatestImplementationVersion ==
  /\ \E v \in VersionInputs :
       call' = [fn |-> "get_latest_implementation_version", arg |-> v,
                result |-> get_latest_implementation_version(v)]
  /\ UNCHANGED context_vars

ParseX12MajorVersion ==
  /\ \E v \in MajorVersionInputs :
       call' = [fn |-> "parse_x12_major_version", arg |-> v,
                result |-> parse_x12_major_version(v)]
  /\ UNCHANGED context_vars

IsX12Data ==
  /\ \E v \in DataInputs :
       call' = [fn |-> "is_x12_data", arg |-> v, result |-> is_x12_data(v)]
  /\ UNCHANGED context_vars

SupportNext ==
  GetLatestImplementationVersion \/ ParseX12MajorVersion \/ IsX12Data

SupportSpec == Init /\ [][SupportNext]_vars


(* ---------------- calls of the date functions --------------------------- *)
\* Length of the strs tried as dates of any length.
MaxDateLen == 13

\* The two-digit years 00..99
TwoDigitYears == { TwoDigits(yy) : yy \in 0..99 }

\* Month and day: the first and the last day of a year, the leap day, and a
\* month and two days that no calendar has.
MonthDays ==
  {<<"0", "1", "0", "1">>, <<"1", "2", "3", "1">>, <<"0", "2", "2", "9">>,
   <<"0", "2", "3", "0">>, <<"1", "3", "0", "1">>, <<"0", "1", "0", "0">>}

\* Four-digit years: the first year, years below 1000, years with and
\* without a leap day, and the year 0 that no date has.
FourDigitYears ==
  {<<"0", "0", "0", "0">>, <<"0", "0", "0", "1">>, <<"0", "9", "9", "9">>,
   <<"1", "0", "0", "0">>, <<"1", "9", "0", "0">>, <<"1", "9", "9", "9">>,
   <<"2", "0", "0", "0">>, <<"2", "0", "2", "4">>}

\* Hour and minute: midnight, the last minute of a day, and an hour and a
\* minute that no clock has.
HourMinutes ==
  {<<"0", "0", "0", "0">>, <<"2", "3", "5", "9">>, <<"2", "4", "0", "0">>,
   <<"1", "2", "6", "0">>}

InterchangeDates == { yy \o md : yy \in TwoDigitYears, md \in MonthDays }

Dates == { y \o md : y \in FourDigitYears, md \in MonthDays }

Datetimes == { d \o hm : d \in Dates, hm \in HourMinutes }

\* Times of four and of six digits
Times ==
  {<<"0", "0", "0", "0">>, <<"1", "2", "3", "0">>, <<"2", "3", "5", "9">>,
   <<"1", "2", "3", "0", "5", "9">>, <<"0", "0", "0", "0", "0", "0">>}

\* None, and the strs of digits of every length up to MaxDateLen.
AnyLengthDates ==
  {PyNone}
  \cup { Str([i \in 1..n |-> d]) : n \in 0..MaxDateLen, d \in {"0", "1"} }

DTPName == <<"D", "T", "P">>

\* A DTP segment with a date, a datetime or a time.
DTPSegment(v) ==
  [delimiters |-> NoDelimiters, segment_name |-> DTPName,
   fields |-> <<VStr(<<"4", "7", "2">>), VStr(<<"D", "8">>), v>>]

ParseInterchangeDate ==
  /\ call = NoCall
  /\ \E s \in InterchangeDates :
       call' = [fn |-> "parse_interchange_date", arg |-> s,
                result |-> parse_interchange_date(s)]
  /\ UNCHANGED context_vars

ParseX12Date ==
  /\ \E s \in AnyLengthDates
              \cup { Str(t) : t \in Dates \cup Datetimes \cup Times } :
       call' = [fn |-> "parse_x12_date", arg |-> s,
                result |-> parse_x12_date(s)]
  /\ UNCHANGED context_vars

\* The value a date, datetime or time str decodes to is rendered as the
\* third element of a DTP segment, by an interpreter of either C library.
RenderX12Date ==
  /\ call = NoCall
  /\ \E s \in Dates \cup Datetimes \cup Times, zero_padded_year \in BOOLEAN :
       LET decoded == parse_x12_date(Str(s))
       IN /\ decoded.raised = ""
          /\ call' = [fn |-> "render_x12_date",
                      arg |-> [date_string |-> s, decoded |-> decoded.value,
                               zero_padded_year |-> zero_padded_year],
                      result |-> X12Segment_x12_libc(DTPSegment(decoded.value),
                                                     NoDelimiters,
                                                     zero_padded_year)]
  /\ UNCHANGED context_vars

DateNext == ParseInterchangeDate \/ ParseX12Date \/ RenderX12Date

DateSpec == Init /\ [][DateNext]_vars


(* ---------------- calls of count_segments ------------------------------- *)
\* Entries of the dict that is counted.
MaxEntries == 2

\* Nesting depth of the loops below the dict that is counted.
MaxTreeDepth == 3

\* A segment record: the dict of a segment model.
SegmentRecord(k) ==
  Value(k, "dict", <<Value(<<"s", "e", "g", "m", "e", "n", "t", "_", "n", "a", "m", "e">>, "str", <<>>)>>)

\* The entries of a loop beside its child loops: a segment, a segment that
\* is absent, a list of two segments, a list of none, and a child loop and
\* a list of child loops that are absent.
Entries ==
  {SegmentRecord(<<"s", "t", "_", "s", "e", "g", "m", "e", "n", "t">>),
   Value(<<"n", "m", "1", "_", "s", "e", "g", "m", "e", "n", "t">>, "NoneType", <<>>),
   Value(<<"r", "e", "f", "_", "s", "e", "g", "m", "e", "n", "t">>, "list", <<SegmentRecord(<<>>), SegmentRecord(<<>>)>>),
   Value(<<"p", "e", "r", "_", "s", "e", "g", "m", "e", "n", "t">>, "list", <<>>),
   Value(<<"l", "o", "o", "p", "_", "1", "0", "0", "0", "a">>, "NoneType", <<>>),
   Value(<<"l", "o", "o", "p", "_", "2", "0", "0", "0", "a">>, "list", <<>>)}

\* The value and every dict below it as the model that validation makes of it
RECURSIVE AsModel(_)
AsModel(v) ==
  [k |-> v.k,
   type |-> IF v.type = "dict" THEN "model" ELSE v.type,
   items |-> [i \in DOMAIN v.items |-> AsModel(v.items[i])]]

\* The value stored under the key k
Keyed(v, k) == [v EXCEPT !.k = k]

\* The loops and lists of loops a dict is nested as: a dict, a model, a list
\* of two dicts, and a list of a model and a dict.
Nestings(values) ==
  {Keyed(values, <<"h", "e", "a", "d", "e", "r">>),
   Keyed(AsModel(values), <<"l", "o", "o", "p", "_", "2", "0", "0", "0", "b">>),
   Value(<<"l", "o", "o", "p", "_", "2", "3", "0", "0">>, "list", <<values, values>>),
   Value(<<"l", "o", "o", "p", "_", "2", "4", "0", "0">>, "list", <<AsModel(values), values>>)}

\* The dict most recently counted, the empty dict when there is none.
CurrentValues ==
  IF call.fn = "count_segments" THEN call.arg.values
  ELSE Value(<<>>, "dict", <<>>)

CurrentTreeDepth == IF call.fn = "count_segments" THEN call.arg.depth ELSE 0

\* The dict of the last call with one more entry, as long as no loop is
\* nested in it.
CountSegments ==
  /\ call.fn \in {"", "count_segments"}
  /\ CurrentTreeDepth = 0
  /\ Len(CurrentValues.items) < MaxEntries
  /\ \E e \in Entries :
       LET values == [CurrentValues EXCEPT !.items = Append(@, e)]
       IN call' = [fn |-> "count_segments",
                   arg |-> [values |-> values, depth |-> 0],
                   result |-> count_segments(values)]
  /\ UNCHANGED context_vars

\* A dict that holds the dict of the last call as a loop or in a list of
\* loops, or as a loop after a segment.
CountNestedSegments ==
  /\ call.fn = "count_segments"
  /\ CurrentTreeDepth < MaxTreeDepth
  /\ \E items \in
          { <<loop>> : loop \in Nestings(CurrentValues) }
          \cup { <<SegmentRecord(<<"b", "h", "t", "_", "s", "e", "g", "m", "e", "n", "t">>),
                   Keyed(CurrentValues, <<"f", "o", "o", "t", "e", "r">>)>> } :
       LET values == Value(<<>>, "dict", items)
       IN call' = [fn |-> "count_segments",
                   arg |-> [values |-> values, depth |-> CurrentTreeDepth + 1],
                   result |-> count_segments(values)]
  /\ UNCHANGED context_vars

CountNext == CountSegments \/ CountNestedSegments

CountSpec == Init /\ [][CountNext]_vars


(* ---------------- calls of the methods of models.py --------------------- *)
\* Fields of a segment beside its name.
MaxFields == 3

\* Fields of the group that is serialized.
MaxGroupFields == 2

\* Nesting depth of the group that is serialized.
MaxDepth == 2

\* Digits after the decimal point of a decimal element on the wire.
MaxFractionDigits == 3

\* The delimiters of an interchange that declares element |, component >,
\* repetition ~ and terminator #.
CustomDelimiters ==
  [element_separator |-> "|", repetition_separator |-> "~",
   segment_terminator |-> "#", component_separator |-> ">"]

NM1Name == <<"N", "M", "1">>

REFName == <<"R", "E", "F">>

AMTName == <<"A", "M", "T">>

\* Field values that hold no delimiter: None, "", a str, a composite and a
\* repeating element.
FieldValues ==
  {VNone, VStr(<<>>), VStr(<<"A">>), VList(<< <<"B">>, <<"C">> >>, TRUE),
   VList(<< <<"D">>, <<"E">> >>, FALSE)}

Segments ==
  { [delimiters |-> d, segment_name |-> NM1Name, fields |-> f] :
      d \in {NoDelimiters, CustomDelimiters},
      f \in UNION { [1..m -> FieldValues] : m \in 0..MaxFields } }

\* The segments that the groups are built of.
NM1Segment ==
  [delimiters |-> NoDelimiters, segment_name |-> NM1Name,
   fields |-> <<VStr(<<"A">>), VNone>>]

REFSegment ==
  [delimiters |-> CustomDelimiters, segment_name |-> REFName,
   fields |-> <<VNone, VList(<< <<"B">>, <<"C">> >>, TRUE)>>]

GroupFields ==
  {FNone, FOne(SegmentItem(NM1Segment)),
   FList(<<SegmentItem(NM1Segment), SegmentItem(REFSegment)>>)}

\* Nesting depth of a group
RECURSIVE Depth(_)
Depth(group) ==
  LET items == Concat([i \in DOMAIN group |-> group[i].v])
      depths == { IF items[i].kind = "segment" THEN 0 ELSE Depth(items[i].group) :
                  i \in DOMAIN items }
  IN 1 + (IF depths = {} THEN 0
          ELSE CHOOSE m \in depths : \A x \in depths : x <= m)

\* The group most recently serialized, the empty group when there is none.
CurrentGroup ==
  IF call.fn = "X12SegmentGroup.x12" THEN call.arg.self ELSE <<>>

\* A group is serialized with and without new lines.
GroupCall(group, custom_delimiters) ==
  /\ Depth(group) <= MaxDepth
  /\ Len(group) <= MaxGroupFields
  /\ call' = [fn |-> "X12SegmentGroup.x12",
              arg |-> [self |-> group, custom_delimiters |-> custom_delimiters],
              result |->
                [pretty |-> X12SegmentGroup_x12(group, TRUE, custom_delimiters),
                 compact |-> X12SegmentGroup_x12(group, FALSE,
                                                 custom_delimiters)]]

\* A segment is serialized.
SegmentX12 ==
  /\ call = NoCall
  /\ \E self \in Segments, custom \in {NoDelimiters, CustomDelimiters} :
       call' = [fn |-> "X12Segment.x12",
                arg |-> [self |-> self, custom_delimiters |-> custom],
                result |-> X12Segment_x12(self, custom)]
  /\ UNCHANGED context_vars

\* The group of the last call with one more field.
GroupX12 ==
  /\ call.fn \in {"", "X12SegmentGroup.x12"}
  /\ \E f \in GroupFields, custom \in {NoDelimiters, CustomDelimiters} :
       GroupCall(Append(CurrentGroup, f), custom)
  /\ UNCHANGED context_vars

\* A group that holds the group of the last call as a nested group, alone,
\* after a segment, or twice in a list.
NestedGroupX12 ==
  /\ call.fn = "X12SegmentGroup.x12"
  /\ CurrentGroup # <<>>
  /\ \E custom \in {NoDelimiters, CustomDelimiters} :
       \E outer \in
            { <<FOne(GroupItem(CurrentGroup))>>,
              <<FList(<<GroupItem(CurrentGroup), GroupItem(CurrentGroup)>>)>> }
            \cup { <<FOne(SegmentItem(REFSegment)),
                      FOne(GroupItem(CurrentGroup))>> } :
         GroupCall(outer, custom)
  /\ UNCHANGED context_vars

\* Decimal elements on the wire: an integer part and up to
\* MaxFractionDigits digits after a decimal point.
DecimalTexts ==
  { i \o f : i \in {<<"0">>, <<"7">>, <<"1", "2">>},
             f \in {<<>>} \cup { <<".">> \o d :
                                   d \in UNION { [1..m -> {"0", "5"}] :
                                                  m \in 1..MaxFractionDigits } } }

AMTSchema == <<"str", "Decimal">>

\* An AMT segment of the wire is decoded and serialized again with the
\* delimiters it was decoded with.
RoundTrip ==
  /\ call = NoCall
  /\ \E text \in DecimalTexts, d \in {X12Delimiters, CustomDelimiters} :
       LET wire == Join(d.element_separator, <<AMTName, <<"D">>, text>>)
                     \o <<d.segment_terminator>>
       IN call' = [fn |-> "round_trip",
                   arg |-> [wire |-> wire, delimiters |-> d, text |-> text],
                   result |-> X12Segment_x12(decode_segment(wire, AMTSchema, d),
                                             d)]
  /\ UNCHANGED context_vars

\* The name of field i of a group in its schema: a field of nested groups is
\* a loop_* field, a field of segments a *_segment field; a field that holds
\* nothing is taken for a field of segments.
field_name(f, i) ==
  IF f.v # <<>> /\ f.v[1].kind = "group"
  THEN <<"l", "o", "o", "p", "_">> \o IntStr(i)
  ELSE <<"s">> \o IntStr(i) \o SEGMENT_SUFFIX

\* X12Segment.dict(): delimiters, segment_name and the elements, a list
\* element with its str items.
X12Segment_dict(k, self) ==
  Value(k, "dict",
        <<Value(<<"d", "e", "l", "i", "m", "i", "t", "e", "r", "s">>,
                IF self.delimiters = NoDelimiters THEN "NoneType" ELSE "dict",
                <<>>),
          Value(<<"s", "e", "g", "m", "e", "n", "t", "_", "n", "a", "m", "e">>,
                "str", <<>>)>>
        \o [i \in DOMAIN self.fields |->
              Value(<<"e">> \o IntStr(i), self.fields[i].type,
                    IF self.fields[i].type = "list"
                    THEN [j \in DOMAIN self.fields[i].s |->
                            Value(<<>>, "str", <<>>)]
                    ELSE <<>>)])

\* X12SegmentGroup.dict(): the fields under their names, each segment and
\* each nested group as a dict
RECURSIVE X12SegmentGroup_dict(_, _)
X12SegmentGroup_dict(k, self) ==
  LET item_dict(name, item) ==
        IF item.kind = "segment" THEN X12Segment_dict(name, item.segment)
        ELSE X12SegmentGroup_dict(name, item.group)
      field_dict(i) ==
        LET name == field_name(self[i], i) IN
        CASE self[i].kind = "None" -> Value(name, "NoneType", <<>>)
          [] self[i].kind = "one" -> item_dict(name, self[i].v[1])
          [] self[i].kind = "list" ->
               Value(name, "list",
                     [j \in DOMAIN self[i].v |-> item_dict(<<>>, self[i].v[j])])
  IN Value(k, "dict", [i \in DOMAIN self |-> field_dict(i)])

\* The group of the last call, as it is or with an empty list as one more
\* field, is serialized, and count_segments is called on its dict().
CountGroupSegments ==
  /\ call.fn = "X12SegmentGroup.x12"
  /\ \E extra \in {<<>>, <<FList(<<>>)>>} :
       LET group == CurrentGroup \o extra
           custom_delimiters == call.arg.custom_delimiters
       IN call' = [fn |-> "count_segments(X12SegmentGroup.dict())",
                   arg |-> [self |-> group,
                            custom_delimiters |-> custom_delimiters],
                   result |->
                     [count |-> count_segments(X12SegmentGroup_dict(<<>>, group)),
                      pretty |-> X12SegmentGroup_x12(group, TRUE,
                                                     custom_delimiters),
                      compact |-> X12SegmentGroup_x12(group, FALSE,
                                                      custom_delimiters)]]
  /\ UNCHANGED context_vars

ModelsNext ==
  SegmentX12 \/ GroupX12 \/ NestedGroupX12 \/ RoundTrip \/ CountGroupSegments

ModelsSpec == Init /\ [][ModelsNext]_vars


(* ---------------- vocabulary of the properties ------------------------- *)
\* h[n][k] of a repeating loop, the empty list when the key is absent
ListOf(h, n, k) == IF k \in DOMAIN h[n].many THEN h[n].many[k] ELSE <<>>

Last(s) == s[Len(s)]

Elems(s) == {s[i] : i \in DOMAIN s}

\* The id of the dict the next allocation creates.
Fresh == Len(heap) + 1

\* The claim most recently opened for the patient, and its most recent
\* service line.
CurrentClaim == Last(ListOf(heap, patient_record, CLAIM_INFORMATION))

CurrentServiceLine == Last(ListOf(heap, CurrentClaim, CLAIM_SERVICE_LINE))

ClaimLevelLoops ==
  {CLAIM_INFORMATION, CLAIM_REFERRING_PROVIDER_NAME,
   CLAIM_RENDERING_PROVIDER_NAME, CLAIM_SERVICE_FACILITY_LOCATION_NAME,
   CLAIM_SUPERVISING_PROVIDER_NAME, CLAIM_AMBULANCE_PICKUP_LOCATION,
   CLAIM_AMBULANCE_DROPOFF_LOCATION}

OtherSubscriberLoops ==
  {CLAIM_OTHER_SUBSCRIBER_INFORMATION, CLAIM_OTHER_SUBSCRIBER_NAME,
   CLAIM_OTHER_SUBSCRIBER_OTHER_PAYER_NAME,
   CLAIM_OTHER_SUBSCRIBER_OTHER_PAYER_REFERRING_PROVIDER_NAME,
   CLAIM_OTHER_SUBSCRIBER_OTHER_PAYER_RENDERING_PROVIDER_NAME,
   CLAIM_OTHER_SUBSCRIBER_OTHER_PAYER_SERVICE_FACILITY_LOCATION,
   CLAIM_OTHER_SUBSCRIBER_OTHER_PAYER_SUPERVISING_PROVIDER_NAME,
   CLAIM_OTHER_SUBSCRIBER_OTHER_PAYER_BILLING_PROVIDER_NAME}

ServiceLineLoops ==
  {CLAIM_SERVICE_LINE, CLAIM_SERVICE_LINE_DRUG_IDENTIFICATION_NAME,
   CLAIM_SERVICE_LINE_RENDERING_PROVIDER_NAME,
   CLAIM_SERVICE_LINE_PURCHASED_SERVICE_PROVIDER_NAME,
   CLAIM_SERVICE_LINE_SERVICE_FACILITY_LOCATION_NAME,
   CLAIM_SERVICE_LINE_SUPERVISING_PROVIDER_NAME,
   CLAIM_SERVICE_LINE_ORDERING_PROVIDER_NAME,
   CLAIM_SERVICE_LINE_REFERRING_PROVIDER_NAME,
   CLAIM_SERVICE_LINE_AMBULANCE_PICKUP_LOCATION,
   CLAIM_SERVICE_LINE_AMBULANCE_DROPOFF_LOCATION,
   CLAIM_SERVICE_LINE_LINE_ADJUDICATION_INFORMATION,
   CLAIM_SERVICE_LINE_LINE_FORM_IDENTIFICATION}

\* The context that parsing segment d in the current context returns.
After(d) == parse(Context, d)

CLMSegment == Segment("CLM", "", "", "")

\* Context c creates the singular loop k nowhere: every dict that holds one
\* in c held the same one before.
NotCreated(c, k) ==
  \A n \in DOMAIN c.heap :
    k \in DOMAIN c.heap[n].one =>
      /\ n \in DOMAIN heap
      /\ k \in DOMAIN heap[n].one
      /\ c.heap[n].one[k] = heap[n].one[k]

\* In context c the fresh dict has been appended to the list k of dict n.
Appended(c, n, k) == ListOf(c.heap, n, k) = Append(ListOf(heap, n, k), Fresh)

(* ---------------- C1 ---------------------------------------------------- *)
\* C1: once a billing provider is open, an HL 22 with hierarchical_child_code
\* "0" makes the patient shortcut the very node of the subscriber shortcut
\* (the subscriber just appended to the billing provider), and a CLM arriving
\* while that HL is the most recent one appends the new claim to the
\* loop_2300 list of that subscriber node and moves the cursor to it.
C1_SubscriberIsPatient ==
  Live =>
    /\ ListOf(heap, transaction_data, BILLING_PROVIDER) # <<>> =>
         \A c \in {After(Segment("HL", "", "22", "0"))} :
           /\ ~c.error
           /\ c.subscriber_record = Fresh
           /\ Appended(c, Last(ListOf(heap, transaction_data, BILLING_PROVIDER)),
                       SUBSCRIBER)
           /\ c.patient_record = c.subscriber_record
    /\ hl_segment = [hierarchical_level_code |-> "22",
                     hierarchical_child_code |-> "0"] =>
         \A c \in {After(CLMSegment)} :
           /\ ~c.error
           /\ patient_record = subscriber_record
           /\ c.patient_record = patient_record
           /\ c.subscriber_record = subscriber_record
           /\ Appended(c, subscriber_record, CLAIM_INFORMATION)
           /\ c.loop_container = Fresh

\* C1 witness: the most recent HL is a 22 with child code "0", and the cursor
\* is at a claim of the subscriber node, which is also the patient node.
C1_Witness ==
  /\ hl_segment = [hierarchical_level_code |-> "22",
                   hierarchical_child_code |-> "0"]
  /\ subscriber_record # None
  /\ patient_record = subscriber_record
  /\ loop_name = CLAIM_INFORMATION
  /\ loop_container = Last(ListOf(heap, subscriber_record, CLAIM_INFORMATION))

(* ---------------- C2 ---------------------------------------------------- *)
\* C2: an HL 23 arriving after an HL 22 with hierarchical_child_code "1"
\* appends a new patient node to the loop_2000c list of the current
\* subscriber and points the patient shortcut to it; a CLM arriving while an
\* HL 23 is the most recent HL appends the claim to that patient node, which
\* is not the subscriber node, and leaves the subscriber's own claim list as
\* it was.
C2_SubscriberWithDependent ==
  Live =>
    /\ hl_segment = [hierarchical_level_code |-> "22",
                     hierarchical_child_code |-> "1"] =>
         \A c \in {After(Segment("HL", "", "23", "0"))} :
           /\ ~c.error
           /\ c.subscriber_record = subscriber_record
           /\ Appended(c, subscriber_record, PATIENT_LOOP)
           /\ c.patient_record = Fresh
           /\ c.loop_container = Fresh
           /\ c.loop_name = PATIENT_LOOP
    /\ hl_segment.hierarchical_level_code = "23" =>
         \A c \in {After(CLMSegment)} :
           /\ ~c.error
           /\ patient_record # subscriber_record
           /\ patient_record
                \in Elems(ListOf(heap, subscriber_record, PATIENT_LOOP))
           /\ Appended(c, patient_record, CLAIM_INFORMATION)
           /\ ListOf(c.heap, subscriber_record, CLAIM_INFORMATION)
                = ListOf(heap, subscriber_record, CLAIM_INFORMATION)
           /\ c.loop_container = Fresh

\* C2 witness: the cursor is at a claim of a dependent patient node that
\* sits in the loop_2000c list of the subscriber, which has no claim itself.
C2_Witness ==
  /\ hl_segment.hierarchical_level_code = "23"
  /\ patient_record # None
  /\ patient_record # subscriber_record
  /\ patient_record \in Elems(ListOf(heap, subscriber_record, PATIENT_LOOP))
  /\ loop_name = CLAIM_INFORMATION
  /\ loop_container = Last(ListOf(heap, patient_record, CLAIM_INFORMATION))
  /\ ListOf(heap, subscriber_record, CLAIM_INFORMATION) = <<>>

(* ---------------- C3 ---------------------------------------------------- *)
\* C3: an NM1 with entity_identifier_code DN opens loop_2310a under the
\* current claim when the cursor is in loop_2300 or a loop_2310* loop, and
\* opens loop_2420f under the current service line when the cursor is in a
\* loop_24* loop; the cursor moves to the loop opened and the other loop is
\* created nowhere.
C3_QualifierDisambiguatedNM1 ==
  Live =>
    \A c \in {After(Segment("NM1", "DN", "", ""))} :
      /\ loop_name \in ClaimLevelLoops =>
           /\ ~c.error
           /\ c.loop_name = CLAIM_REFERRING_PROVIDER_NAME
           /\ CLAIM_REFERRING_PROVIDER_NAME \in DOMAIN c.heap[CurrentClaim].one
           /\ c.loop_container
                = c.heap[CurrentClaim].one[CLAIM_REFERRING_PROVIDER_NAME]
           /\ NotCreated(c, CLAIM_SERVICE_LINE_REFERRING_PROVIDER_NAME)
      /\ loop_name \in ServiceLineLoops =>
           /\ ~c.error
           /\ c.loop_name = CLAIM_SERVICE_LINE_REFERRING_PROVIDER_NAME
           /\ CLAIM_SERVICE_LINE_REFERRING_PROVIDER_NAME
                \in DOMAIN c.heap[CurrentServiceLine].one
           /\ c.loop_container
                = c.heap[CurrentServiceLine].one[
                    CLAIM_SERVICE_LINE_REFERRING_PROVIDER_NAME]
           /\ NotCreated(c, CLAIM_REFERRING_PROVIDER_NAME)

\* C3 witness: one claim holds a referring provider loop_2310a and one of its
\* service lines holds a referring provider loop_2420f, where the cursor is.
C3_Witness ==
  /\ loop_name = CLAIM_SERVICE_LINE_REFERRING_PROVIDER_NAME
  /\ patient_record # None
  /\ ListOf(heap, patient_record, CLAIM_INFORMATION) # <<>>
  /\ CLAIM_REFERRING_PROVIDER_NAME \in DOMAIN heap[CurrentClaim].one
  /\ ListOf(heap, CurrentClaim, CLAIM_SERVICE_LINE) # <<>>
  /\ CLAIM_SERVICE_LINE_REFERRING_PROVIDER_NAME
       \in DOMAIN heap[CurrentServiceLine].one
  /\ loop_container
       = heap[CurrentServiceLine].one[CLAIM_SERVICE_LINE_REFERRING_PROVIDER_NAME]

(* ---------------- C4 ---------------------------------------------------- *)
AmbulanceClaimLoop(code) ==
  IF code = "PW" THEN CLAIM_AMBULANCE_PICKUP_LOCATION
  ELSE CLAIM_AMBULANCE_DROPOFF_LOCATION

AmbulanceServiceLineLoop(code) ==
  IF code = "PW" THEN CLAIM_SERVICE_LINE_AMBULANCE_PICKUP_LOCATION
  ELSE CLAIM_SERVICE_LINE_AMBULANCE_DROPOFF_LOCATION

\* The context is c in every part the binder keeps.
Unchanged(c) ==
  /\ c.heap = heap
  /\ c.loop_name = loop_name
  /\ c.loop_container = loop_container
  /\ c.subscriber_record = subscriber_record
  /\ c.patient_record = patient_record
  /\ c.hl_segment = hl_segment
  /\ c.error = error

\* C4: an NM1 with entity_identifier_code PW (45) opens loop_2310e
\* (loop_2310f) as a new node of the current claim exactly when the cursor's
\* loop id contains loop_23, and opens loop_2420g (loop_2420h) as a new node
\* of the current service line exactly when it contains loop_24; elsewhere
\* the segment opens nothing, and no loop id contains both.
C4_AmbulanceDisambiguation ==
  Live =>
    \A code \in {"PW", "45"} :
      \A c \in {After(Segment("NM1", code, "", ""))} :
        /\ ~(InLoopName(LOOP_23, loop_name) /\ InLoopName(LOOP_24, loop_name))
        /\ InLoopName(LOOP_23, loop_name) =>
             /\ ~c.error
             /\ c.loop_name = AmbulanceClaimLoop(code)
             /\ c.loop_container = Fresh
             /\ AmbulanceClaimLoop(code) \in DOMAIN c.heap[CurrentClaim].one
             /\ c.heap[CurrentClaim].one[AmbulanceClaimLoop(code)] = Fresh
             /\ NotCreated(c, AmbulanceServiceLineLoop(code))
        /\ InLoopName(LOOP_24, loop_name) =>
             /\ ~c.error
             /\ c.loop_name = AmbulanceServiceLineLoop(code)
             /\ c.loop_container = Fresh
             /\ AmbulanceServiceLineLoop(code)
                  \in DOMAIN c.heap[CurrentServiceLine].one
             /\ c.heap[CurrentServiceLine].one[AmbulanceServiceLineLoop(code)]
                  = Fresh
             /\ NotCreated(c, AmbulanceClaimLoop(code))
        /\ ( ~InLoopName(LOOP_23, loop_name)
             /\ ~InLoopName(LOOP_24, loop_name) ) => Unchanged(c)

\* C4 witness: a claim holds an ambulance pick-up loop_2310e, one of its
\* service lines an ambulance drop-off loop_2420h, where the cursor is.
C4_Witness ==
  /\ loop_name = CLAIM_SERVICE_LINE_AMBULANCE_DROPOFF_LOCATION
  /\ patient_record # None
  /\ ListOf(heap, patient_record, CLAIM_INFORMATION) # <<>>
  /\ CLAIM_AMBULANCE_PICKUP_LOCATION \in DOMAIN heap[CurrentClaim].one
  /\ ListOf(heap, CurrentClaim, CLAIM_SERVICE_LINE) # <<>>
  /\ CLAIM_SERVICE_LINE_AMBULANCE_DROPOFF_LOCATION
       \in DOMAIN heap[CurrentServiceLine].one

(* ---------------- C5 ---------------------------------------------------- *)
\* C5: in every state the binder reaches and for every NM1
\* entity_identifier_code, calling the NM1 handlers in registration order
\* opens at most one loop: a handler registered later does not fire on the
\* cursor position an earlier handler produced for the same segment.
C5_FirstMatchWins ==
  Live =>
    \A code \in EntityCodes :
      Len(After(Segment("NM1", code, "", "")).opened) <= 1

\* C5 witness: the cursor is at an other-subscriber loop_2320, where the code
\* DN matches three handlers (claim entity, other-subscriber entity, service
\* line entity) and exactly one of them opens a loop.
C5_Witness ==
  /\ Live
  /\ loop_name = CLAIM_OTHER_SUBSCRIBER_INFORMATION
  /\ Len(matching(Segment("NM1", "DN", "", ""))) = 3
  /\ After(Segment("NM1", "DN", "", "")).opened
       = <<CLAIM_OTHER_SUBSCRIBER_OTHER_PAYER_REFERRING_PROVIDER_NAME>>

(* ---------------- C6 ---------------------------------------------------- *)
\* C6: whatever loop the cursor is in, a CLM that finds a patient record
\* appends the new claim to the loop_2300 list of the node the patient
\* shortcut holds, changes no other dict (the one the cursor was at
\* included), and moves the cursor to the new claim with loop id loop_2300.
C6_ClaimAttachesToPatient ==
  (Live /\ patient_record # None) =>
    \A c \in {After(CLMSegment)} :
      /\ ~c.error
      /\ Appended(c, patient_record, CLAIM_INFORMATION)
      /\ \A n \in DOMAIN heap : n # patient_record => c.heap[n] = heap[n]
      /\ Len(c.heap) = Fresh
      /\ c.loop_container = Fresh
      /\ c.loop_name = CLAIM_INFORMATION

\* C6 witness: the cursor is at the second claim of the patient, bound while
\* the first claim already had a service line.
C6_Witness ==
  /\ loop_name = CLAIM_INFORMATION
  /\ patient_record # None
  /\ Len(ListOf(heap, patient_record, CLAIM_INFORMATION)) = 2
  /\ loop_container = ListOf(heap, patient_record, CLAIM_INFORMATION)[2]
  /\ LET first == ListOf(heap, patient_record, CLAIM_INFORMATION)[1]
     IN /\ ListOf(heap, first, CLAIM_SERVICE_LINE) # <<>>
        /\ heap[loop_container].many = EmptyDict

(* ---------------- C7 ---------------------------------------------------- *)
\* C7: an SVD bound to a service line appends one adjudication node to that
\* service line's loop_2430 list and keeps every node an earlier SVD put
\* there, in arrival order.
C7_SvdAccumulates ==
  [][ ( SVD /\ ~error' ) =>
        ListOf(heap', CurrentServiceLine,
               CLAIM_SERVICE_LINE_LINE_ADJUDICATION_INFORMATION)
          = Append(ListOf(heap, CurrentServiceLine,
                          CLAIM_SERVICE_LINE_LINE_ADJUDICATION_INFORMATION),
                   Fresh)
    ]_vars

(* ---------------- C8 ---------------------------------------------------- *)
\* C8: an NM1 with entity_identifier_code PR arriving with the cursor in the
\* subscriber name loop loop_2010ba creates the payer-name node under the
\* subscriber as loop_2010bb and the cursor's loop id becomes loop_2010bb.
C8_PayerNameLabel ==
  [][ ( Live /\ Step(Segment("NM1", "PR", "", ""))
        /\ loop_name = SUBSCRIBER_NAME ) =>
      /\ ~error'
      /\ SUBSCRIBER_PAYER_NAME \in DOMAIN heap'[subscriber_record].one
      /\ loop_container' = heap'[subscriber_record].one[SUBSCRIBER_PAYER_NAME]
      /\ loop_name' = SUBSCRIBER_PAYER_NAME
    ]_vars

(* ---------------- C9 ---------------------------------------------------- *)
RepeatingLoops ==
  {BILLING_PROVIDER, SUBSCRIBER, PATIENT_LOOP, CLAIM_INFORMATION,
   CLAIM_OTHER_SUBSCRIBER_INFORMATION, CLAIM_SERVICE_LINE,
   CLAIM_SERVICE_LINE_LINE_FORM_IDENTIFICATION}

\* In context c the fresh dict has been appended to the list k of dict n and
\* no other list of a repeating loop has changed.
AppendsOnlyTo(c, n, k) ==
  /\ Appended(c, n, k)
  /\ \A m \in DOMAIN heap, j \in RepeatingLoops :
       <<m, j>> # <<n, k>> => ListOf(c.heap, m, j) = ListOf(heap, m, j)

\* The segments that start a repeating loop.
Triggers ==
  {Segment("HL", "", "20", "1"), Segment("HL", "", "22", "0"),
   Segment("HL", "", "22", "1"), Segment("HL", "", "23", "0"), CLMSegment,
   Segment("SBR", "", "", ""), Segment("LX", "", "", ""),
   Segment("LQ", "", "", "")}

\* The dict a trigger that binds appends to, and the list it appends to.
TriggerParent(d) ==
  CASE d.name = "HL" /\ d.hierarchical_level_code = "20" -> transaction_data
    [] d.name = "HL" /\ d.hierarchical_level_code = "22" ->
         Last(ListOf(heap, transaction_data, BILLING_PROVIDER))
    [] d.name = "HL" /\ d.hierarchical_level_code = "23" -> subscriber_record
    [] d.name = "CLM" -> patient_record
    [] d.name \in {"SBR", "LX"} -> CurrentClaim
    [] d.name = "LQ" -> CurrentServiceLine

TriggerLoop(d) ==
  CASE d.name = "HL" /\ d.hierarchical_level_code = "20" -> BILLING_PROVIDER
    [] d.name = "HL" /\ d.hierarchical_level_code = "22" -> SUBSCRIBER
    [] d.name = "HL" /\ d.hierarchical_level_code = "23" -> PATIENT_LOOP
    [] d.name = "CLM" -> CLAIM_INFORMATION
    [] d.name = "SBR" -> CLAIM_OTHER_SUBSCRIBER_INFORMATION
    [] d.name = "LX" -> CLAIM_SERVICE_LINE
    [] d.name = "LQ" -> CLAIM_SERVICE_LINE_LINE_FORM_IDENTIFICATION

\* C9: for the repeating loops 2000a, 2000b, 2000c, 2300, 2320, 2400 and
\* 2440, each trigger that binds (HL 20, HL 22, HL 23, CLM, SBR within
\* loop_23*, LX, LQ) appends exactly one fresh node at the end of its
\* parent's list and changes no other sibling list, and every list is in
\* allocation order; so the i-th sibling is the one the i-th trigger opened.
C9_SiblingOrder ==
  /\ \A n \in DOMAIN heap, k \in RepeatingLoops :
       \A i, j \in DOMAIN ListOf(heap, n, k) :
         i < j => ListOf(heap, n, k)[i] < ListOf(heap, n, k)[j]
  /\ Live =>
       \A d \in Triggers :
         \A c \in {After(d)} :
           ( /\ ~c.error
             /\ d.name = "SBR" =>
                  loop_name \in ClaimLevelLoops \cup OtherSubscriberLoops )
           => AppendsOnlyTo(c, TriggerParent(d), TriggerLoop(d))

\* C9 witness: a service line whose loop_2440 list holds the nodes of two LQ
\* segments.
C9_Witness ==
  \E n \in DOMAIN heap :
    Len(ListOf(heap, n, CLAIM_SERVICE_LINE_LINE_FORM_IDENTIFICATION)) = 2

(* ---------------- C10 --------------------------------------------------- *)
\* C10: a patient name loop loop_2010ca exists only under a dependent patient
\* node (a loop_2000c node, whose HL has level code 23), never under a
\* subscriber node.
C10_PatientNameUnderPatientOnly ==
  \A n \in DOMAIN heap :
    PATIENT_LOOP_NAME \in DOMAIN heap[n].one => heap[n].hl = "23"

(* ---------------- C11 --------------------------------------------------- *)
\* The links of the document tree: <<parent, key, child>> for every child
\* loop a dict holds, singular or in a list.
Links ==
  UNION { { <<n, k, heap[n].one[k]>> : k \in DOMAIN heap[n].one }
          \cup UNION { { <<n, k, heap[n].many[k][i]>> :
                           i \in DOMAIN heap[n].many[k] } :
                       k \in DOMAIN heap[n].many } :
          n \in DOMAIN heap }

\* The dicts reachable from the root by parent-to-child links.
RECURSIVE ReachableFrom(_)
ReachableFrom(S) ==
  LET T == S \cup { e[3] : e \in { l \in Links : l[1] \in S } }
  IN IF T = S THEN S ELSE ReachableFrom(T)

\* The loops under which the implementation guide places loop k ("" is the
\* transaction set itself).
LegalParents(k) ==
  CASE k \in {HEADER, FOOTER, SUBMITTER_NAME, RECEIVER_NAME, BILLING_PROVIDER}
         -> {""}
    [] k \in {BILLING_PROVIDER_NAME, BILLING_PROVIDER_PAY_TO_ADDRESS,
              BILLING_PROVIDER_PAY_TO_PLAN_NAME, SUBSCRIBER}
         -> {BILLING_PROVIDER}
    [] k \in {SUBSCRIBER_NAME, SUBSCRIBER_PAYER_NAME, PATIENT_LOOP}
         -> {SUBSCRIBER}
    [] k = PATIENT_LOOP_NAME -> {PATIENT_LOOP}
    [] k = CLAIM_INFORMATION -> {SUBSCRIBER, PATIENT_LOOP}
    [] k \in (ClaimLevelLoops \ {CLAIM_INFORMATION})
              \cup {CLAIM_OTHER_SUBSCRIBER_INFORMATION, CLAIM_SERVICE_LINE}
         -> {CLAIM_INFORMATION}
    [] k \in OtherSubscriberLoops \ {CLAIM_OTHER_SUBSCRIBER_INFORMATION}
         -> {CLAIM_OTHER_SUBSCRIBER_INFORMATION}
    [] k \in ServiceLineLoops \ {CLAIM_SERVICE_LINE} -> {CLAIM_SERVICE_LINE}
    [] OTHER -> {}

\* The pairs <<dict, loop id>> at the end of a descent from the root whose
\* every link puts a loop under a parent the guide allows for it.
RECURSIVE LegalDescents(_)
LegalDescents(S) ==
  LET T == S \cup { <<l[3], l[2]>> :
                     l \in { m \in Links :
                               \E p \in S : /\ p[1] = m[1]
                                            /\ p[2] \in LegalParents(m[2]) } }
  IN IF T = S THEN S ELSE LegalDescents(T)

\* C11: after every processed segment the dict the cursor points to is
\* reachable from the root of the document tree by parent-to-child links, and
\* it ends a descent from the root in which every loop sits under a parent
\* the guide allows and whose last loop is the cursor's loop id.
C11_CursorSoundness ==
  Live =>
    /\ loop_container \in ReachableFrom({transaction_data})
    /\ <<loop_container, loop_name>> \in LegalDescents({<<transaction_data, "">>})

\* The first half of C11 alone: the cursor is never at a detached dict.
C11_CursorAttached ==
  Live => loop_container \in ReachableFrom({transaction_data})

(* ---------------- C12 --------------------------------------------------- *)
\* C12: when an HL 23 arrives under an HL 22 with hierarchical_child_code "0"
\* whose subscriber node has received claims, the claims already attached to
\* the subscriber (with their service lines) are moved under the patient
\* node the HL 23 opens: the subscriber keeps none and the new patient holds
\* them, in order.
C12_RollbackOfSubscriberIsPatient ==
  [][ ( /\ Live
        /\ hl_segment = [hierarchical_level_code |-> "22",
                         hierarchical_child_code |-> "0"]
        /\ ListOf(heap, subscriber_record, CLAIM_INFORMATION) # <<>>
        /\ Step(Segment("HL", "", "23", "0")) ) =>
      /\ ~error'
      /\ patient_record' = Fresh
      /\ ListOf(heap', subscriber_record, CLAIM_INFORMATION) = <<>>
      /\ ListOf(heap', patient_record', CLAIM_INFORMATION)
           = ListOf(heap, subscriber_record, CLAIM_INFORMATION)
    ]_vars

(* ---------------- C13 --------------------------------------------------- *)
\* C13: for every version v of the alias table,
\* get_latest_implementation_version(v) is itself a key of the table that is
\* mapped to itself, so applying the function to its result returns the
\* result again; and 005010X221 is mapped to 005010X221A1.
C13_CanonicalizationIdempotent ==
  ( /\ call.fn = "get_latest_implementation_version"
    /\ call.arg \in DOMAIN X12_IMPLEMENTATION_VERSIONS ) =>
    /\ call.result.raised = ""
    /\ call.result.value \in DOMAIN X12_IMPLEMENTATION_VERSIONS
    /\ X12_IMPLEMENTATION_VERSIONS[call.result.value] = call.result.value
    /\ get_latest_implementation_version(call.result.value) = call.result
    /\ call.arg = <<"0", "0", "5", "0", "1", "0", "X", "2", "2", "1">> =>
         call.result.value = <<"0", "0", "5", "0", "1", "0", "X", "2", "2", "1", "A", "1">>

\* C13 witness: the function has been called with 005010X221 and has
\* returned 005010X221A1.
C13_Witness ==
  /\ call.fn = "get_latest_implementation_version"
  /\ call.arg = <<"0", "0", "5", "0", "1", "0", "X", "2", "2", "1">>
  /\ call.result = Return(<<"0", "0", "5", "0", "1", "0", "X", "2", "2", "1", "A", "1">>)

(* ---------------- C14 --------------------------------------------------- *)
\* C14: get_latest_implementation_version called with a string that is not a
\* key of the alias table raises KeyError and returns nothing, neither a
\* default nor its input.
C14_UnknownVersionFails ==
  ( /\ call.fn = "get_latest_implementation_version"
    /\ call.arg \notin DOMAIN X12_IMPLEMENTATION_VERSIONS ) =>
    call.result = RaiseError("KeyError")

\* C14 witness: the function has been called with a key followed by a blank,
\* which is no key, and has raised KeyError.
C14_Witness ==
  /\ call.fn = "get_latest_implementation_version"
  /\ call.arg = <<"0", "0", "5", "0", "1", "0", "X", "2", "2", "1">> \o <<" ">>
  /\ call.result.raised = "KeyError"

(* ---------------- C15 --------------------------------------------------- *)
\* C15: parse_x12_major_version returns the four characters at 0-based
\* positions 2 to 5 of every input of length 6 or more, and the empty string
\* for None and for every shorter input.
C15_MajorVersionExtraction ==
  call.fn = "parse_x12_major_version" =>
    IF call.arg.none \/ Len(call.arg.s) < 6
    THEN call.result = <<>>
    ELSE call.result
           = <<call.arg.s[3], call.arg.s[4], call.arg.s[5], call.arg.s[6]>>

\* C15 witness: 005010X279A1 has given 5010.
C15_Witness ==
  /\ call.fn = "parse_x12_major_version"
  /\ call.arg = Str(<<"0", "0", "5", "0", "1", "0", "X", "2", "7", "9", "A", "1">>)
  /\ call.result = <<"5", "0", "1", "0">>

(* ---------------- C16 --------------------------------------------------- *)
Whitespace == {" ", "\t", "\n", "\r"}

\* The characters of s that are not whitespace, in order.
NonWhitespace(s) == SelectSeq(s, LAMBDA ch : ch \notin Whitespace)

\* C16: is_x12_data returns true exactly when the first three non-whitespace
\* characters of the input are ISA (leading whitespace before ISA included),
\* and false for an empty or None input.
C16_DetectorIgnoresWhitespace ==
  call.fn = "is_x12_data" =>
    call.result = ( /\ ~call.arg.none
                    /\ StartsWith(NonWhitespace(call.arg.s), ISA) )

(* ---------------- C17 --------------------------------------------------- *)
\* The wire text of a field value under delimiters d.
ElementText(v, d) ==
  CASE v.type = "str" -> v.s
    [] v.type = "NoneType" -> <<>>
    [] v.type = "list" ->
         Join(IF v.is_component THEN d.component_separator
              ELSE d.repetition_separator, v.s)

\* A sequence of strs without its trailing empty ones.
RECURSIVE DropTrailingEmpty(_)
DropTrailingEmpty(strs) ==
  IF strs # <<>> /\ strs[Len(strs)] = <<>>
  THEN DropTrailingEmpty(SubSeq(strs, 1, Len(strs) - 1))
  ELSE strs

\* The delimiters a call uses: custom_delimiters, the defaults without.
EffectiveDelimiters ==
  IF call.arg.custom_delimiters = NoDelimiters THEN X12Delimiters
  ELSE call.arg.custom_delimiters

\* C17: for field values that hold no delimiter, X12Segment.x12 emits the
\* segment name and the field values in schema order joined by the element
\* separator, without the trailing empty elements (None or "") and with the
\* empty elements that precede a non-empty one, followed by the segment
\* terminator, which occurs once; the element separator never stands
\* before the terminator.
C17_SegmentSerialization ==
  call.fn = "X12Segment.x12" =>
    LET d == EffectiveDelimiters
        self == call.arg.self
        texts == <<self.segment_name>>
                   \o [i \in DOMAIN self.fields |->
                         ElementText(self.fields[i], d)]
        out == call.result
    IN /\ out = Join(d.element_separator, DropTrailingEmpty(texts))
                  \o <<d.segment_terminator>>
       /\ { i \in DOMAIN out : out[i] = d.segment_terminator } = {Len(out)}
       /\ out[Len(out) - 1] # d.element_separator

\* C17 witness: a segment with the fields "", "A" and None has been
\* serialized as NM1**A~.
C17_Witness ==
  /\ call.fn = "X12Segment.x12"
  /\ call.arg.custom_delimiters = NoDelimiters
  /\ call.arg.self.fields = <<VStr(<<>>), VStr(<<"A">>), VNone>>
  /\ call.result = <<"N", "M", "1", "*", "*", "A", "~">>

(* ---------------- C18 --------------------------------------------------- *)
RemoveNewlines(s) == SelectSeq(s, LAMBDA ch : ch # "\n")

C19_CarriedDelimiters ==
  ( call.fn = "X12Segment.x12"
    /\ call.arg.custom_delimiters = NoDelimiters ) =>
    LET self == call.arg.self
        d == IF self.delimiters = NoDelimiters THEN X12Delimiters
             ELSE self.delimiters
        texts == <<self.segment_name>>
                   \o [i \in DOMAIN self.fields |->
                         ElementText(self.fields[i], d)]
    IN call.result = Join(d.element_separator, DropTrailingEmpty(texts))
                       \o <<d.segment_terminator>>

(* ---------------- C20 --------------------------------------------------- *)
\* C20: a segment of a conforming interchange that is decoded and serialized
\* again is the wire text it was decoded from; its decimal element is
\* re-emitted as the text it was decoded from.
C20_RoundTrip ==
  call.fn = "round_trip" => call.result = call.arg.wire


(* ---------------- C21 --------------------------------------------------- *)
\* C21: parse_interchange_date maps a two-digit year yy to 2000 + yy when
\* yy < 50 and to 1900 + yy when yy >= 50, for every yy in 00..99.
C21_CenturyPivot ==
  (call.fn = "parse_interchange_date" /\ call.result.raised = "")
  => LET yy == StrInt(SubSeq(call.arg, 1, 2))
     IN call.result.value.year = (IF yy < 50 THEN 2000 + yy ELSE 1900 + yy)

(* ---------------- C22 --------------------------------------------------- *)
\* C22: rendering parse_x12_date(s) in X12Segment.x12 gives s back for every
\* valid 8-digit date string and every valid 12-digit datetime string s, and
\* a 4- or 6-digit time string is kept as a str and rendered unchanged.
C22_RenderingInvertsDecoding ==
  call.fn = "render_x12_date"
  => /\ call.result
          = DTPName \o <<"*">> \o <<"4", "7", "2">> \o <<"*">> \o <<"D", "8">>
              \o <<"*">> \o call.arg.date_string \o <<"~">>
     /\ Len(call.arg.date_string) \in {4, 6}
          => call.arg.decoded = VStr(call.arg.date_string)

\* The same for the strs whose year the C library writes with four digits:
\* a year from 1000 on, or any year on a library that pads.
C22_FourDigitYears ==
  ( call.fn = "render_x12_date"
    /\ (call.arg.zero_padded_year \/ Len(call.arg.date_string) \in {4, 6}
        \/ call.arg.decoded.year >= 1000) )
  => call.result
       = DTPName \o <<"*">> \o <<"4", "7", "2">> \o <<"*">> \o <<"D", "8">>
           \o <<"*">> \o call.arg.date_string \o <<"~">>


(* ---------------- C23 --------------------------------------------------- *)
\* A segment record is the dict or the model of a segment: it has a
\* segment_name.
IsSegmentRecord(v) ==
  /\ v.type \in {"dict", "model"}
  /\ \E i \in DOMAIN v.items : v.items[i].k = <<"s", "e", "g", "m", "e", "n", "t", "_", "n", "a", "m", "e">>

\* The segment records of a value, at all nesting levels
RECURSIVE SegmentRecords(_)
SegmentRecords(v) ==
  IF IsSegmentRecord(v) THEN 1
  ELSE SumCounts([i \in DOMAIN v.items |->
                    Return(SegmentRecords(v.items[i]))]).value

\* C23: count_segments returns exactly the number of segment records of the
\* document tree: 1 for each singular *_segment entry, the list length for
\* each *_segment list, 0 for null entries and empty lists, summed over all
\* nesting levels of dicts, lists and models.
C23_SegmentCount ==
  call.fn = "count_segments"
  => call.result = Return(SegmentRecords(call.arg.values))

\* A tree nested to the full depth is counted: segments are held in a list
\* of loops and in a model, and the count is above the entries of the root.
C23_Witness ==
  /\ call.fn = "count_segments"
  /\ call.arg.depth = MaxTreeDepth
  /\ call.result.raised = ""
  /\ call.result.value > Len(call.arg.values.items)
  /\ \E i \in DOMAIN call.arg.values.items :
       /\ call.arg.values.items[i].type = "list"
       /\ \E j \in DOMAIN call.arg.values.items[i].items :
            call.arg.values.items[i].items[j].type = "model"


(* ---------------- C24 --------------------------------------------------- *)
\* The segment-list keys that the rule of a loop declares.
InitialSegmentLists ==
  (CLAIM_INFORMATION :>
     {"dtp_segment", "pwk_segment", "ref_segment", "k3_segment",
      "crc_segment", "hi_segment"})
  @@ (CLAIM_SERVICE_LINE :>
        {"pwk_segment", "crc_segment", "dtp_segment", "qty_segment",
         "mea_segment", "ref_segment", "amt_segment", "k3_segment",
         "nte_segment"})
  @@ (CLAIM_OTHER_SUBSCRIBER_INFORMATION :> {"cas_segment", "amt_segment"})
  @@ (CLAIM_REFERRING_PROVIDER_NAME :> {"nm1_segment", "ref_segment"})

\* The places of heap h that hold dict n: <<parent, key>>.
Holders(h, n) ==
  UNION { { <<p, k>> : k \in { x \in DOMAIN h[p].one : h[p].one[x] = n } }
          \cup { <<p, k>> : k \in { x \in DOMAIN h[p].many :
                                      n \in Elems(h[p].many[x]) } } :
          p \in DOMAIN h }

\* The segments whose rules open the loops of InitialSegmentLists.
ListTriggers ==
  {CLMSegment, Segment("LX", "", "", ""), Segment("SBR", "", "", ""),
   Segment("NM1", "DN", "", ""), Segment("NM1", "P3", "", "")}

\* C24: a loop node that its rule has just created holds every segment-list
\* key the rule declares as an empty list (claim loop_2300: dtp, pwk, ref,
\* k3, crc, hi; service line loop_2400: pwk, crc, dtp, qty, mea, ref, amt,
\* k3, nte; other subscriber loop_2320: cas, amt; referring provider
\* loop_2310a: nm1, ref), and it is a dict of its own: it is held at one
\* place, once, and is no dict that existed before.
C24_InitialSegmentLists ==
  Live =>
    \A d \in ListTriggers :
      \A c \in {After(d)} :
        \A n \in (DOMAIN c.heap) \ (DOMAIN heap) :
          \A at \in Holders(c.heap, n) :
            at[2] \in DOMAIN InitialSegmentLists =>
              /\ c.heap[n].lists = InitialSegmentLists[at[2]]
              /\ Holders(c.heap, n) = {at}
              /\ at[2] \in DOMAIN c.heap[at[1]].many =>
                   Len(SelectSeq(c.heap[at[1]].many[at[2]],
                                 LAMBDA x : x = n)) = 1

\* C24 witness: each of the four loops has been created: the claim has a
\* referring provider and an other-subscriber loop, and a service line.
C24_Witness ==
  /\ patient_record # None
  /\ ListOf(heap, patient_record, CLAIM_INFORMATION) # <<>>
  /\ CLAIM_REFERRING_PROVIDER_NAME \in DOMAIN heap[CurrentClaim].one
  /\ heap[heap[CurrentClaim].one[CLAIM_REFERRING_PROVIDER_NAME]].lists
       = {"nm1_segment", "ref_segment"}
  /\ ListOf(heap, CurrentClaim, CLAIM_OTHER_SUBSCRIBER_INFORMATION) # <<>>
  /\ ListOf(heap, CurrentClaim, CLAIM_SERVICE_LINE) # <<>>
  /\ heap[CurrentServiceLine].lists = InitialSegmentLists[CLAIM_SERVICE_LINE]


(* ---------------- C25 --------------------------------------------------- *)
STSegment == Segment("ST", "", "", "")

SESegment == Segment("SE", "", "", "")

SBRSegment == Segment("SBR", "", "", "")

\* The claim dicts of the document tree.
Claims ==
  UNION { { ListOf(heap, n, CLAIM_INFORMATION)[i] :
              i \in DOMAIN ListOf(heap, n, CLAIM_INFORMATION) } :
          n \in DOMAIN heap }

\* The claims the cursor is at or below.
ClaimsOfCursor == { n \in Claims : loop_container \in ReachableFrom({n}) }

PatientsOf(n) ==
  { ListOf(heap, n, PATIENT_LOOP)[i] : i \in DOMAIN ListOf(heap, n, PATIENT_LOOP) }

\* C27: once a subscriber and a patient are bound, the dict held by the
\* patient shortcut is the dict held by the subscriber shortcut or a member
\* of that subscriber's loop_2000c list, so that a CLM attaches its claim
\* under the subscriber opened by the most recent HL 22.
C27_PatientOfCurrentSubscriber ==
  (subscriber_record # None /\ patient_record # None) =>
    patient_record \in {subscriber_record} \cup PatientsOf(subscriber_record)

(* ---------------- C28 --------------------------------------------------- *)
LXSegment == Segment("LX", "", "", "")

SVDSegment == Segment("SVD", "", "", "")

LQSegment == Segment("LQ", "", "", "")

\* The segment raised an error in context c and left the document tree and
\* the cursor as they are.
Fails(c) ==
  /\ c.error
  /\ c.heap = heap
  /\ c.loop_name = loop_name
  /\ c.loop_container = loop_container

NoBillingProvider == ListOf(heap, transaction_data, BILLING_PROVIDER) = <<>>

PatientWithoutClaim ==
  \/ patient_record = None
  \/ ListOf(heap, patient_record, CLAIM_INFORMATION) = <<>>

ClaimWithoutServiceLine ==
  /\ ~PatientWithoutClaim
  /\ ListOf(heap, CurrentClaim, CLAIM_SERVICE_LINE) = <<>>

\* C28: an HL 22 in a transaction without an HL 20, an LX for a patient
\* without a claim, and an SVD or an LQ for a claim without a service line
\* each raise an error, create no loop dict and leave the document tree and
\* the cursor as they were; in particular the SVD or LQ is not attached to a
\* service line of an earlier claim.
C28_FailingTriggers ==
  Live =>
    /\ NoBillingProvider =>
         \A child \in {"0", "1"} : Fails(After(Segment("HL", "", "22", child)))
    /\ PatientWithoutClaim => Fails(After(LXSegment))
    /\ ClaimWithoutServiceLine =>
         Fails(After(SVDSegment)) /\ Fails(After(LQSegment))

\* C28 witness: the cursor is at the second claim of a patient, which has no
\* service line, the first claim has one, and an SVD fails here.
C28_Witness ==
  /\ loop_name = CLAIM_INFORMATION
  /\ ~error
  /\ patient_record # None
  /\ Len(ListOf(heap, patient_record, CLAIM_INFORMATION)) = 2
  /\ loop_container = CurrentClaim
  /\ ListOf(heap, ListOf(heap, patient_record, CLAIM_INFORMATION)[1],
            CLAIM_SERVICE_LINE) # <<>>
  /\ ClaimWithoutServiceLine
  /\ After(SVDSegment).error

\* A state of the second case: a dependent without a claim under a
\* subscriber that has one, where an LX fails.
C28_DependentWithoutClaim ==
  /\ Live /\ patient_record # None /\ patient_record # subscriber_record
  /\ ListOf(heap, patient_record, CLAIM_INFORMATION) = <<>>
  /\ ListOf(heap, subscriber_record, CLAIM_INFORMATION) # <<>>
  /\ After(LXSegment).error

(* ---------------- C29 --------------------------------------------------- *)
\* C29: the tree only grows: every loop dict a handler has created in the
\* transaction is still reachable from the root of the document tree, so the
\* second trigger of a singular loop for the same parent (NM1 PW or 45 in a
\* claim, NM1 82, 77, DQ, DK, QB or DN in a service line, NM1 PR, DN or 82
\* in an other-subscriber loop, NM1 QC for a patient, LIN in a service line)
\* neither removes nor replaces the dict the first one created.
C29_TreeOnlyGrows == DOMAIN heap \subseteq ReachableFrom({transaction_data})

(* ---------------- C30 --------------------------------------------------- *)
\* The number of times the character ch occurs in s
Occurrences(s, ch) == Len(SelectSeq(s, LAMBDA x : x = ch))

\* The segments of a group in document order: field after field in schema
\* order, item after item in list order, a nested group where it stands.
RECURSIVE SegmentsOf(_)
SegmentsOf(group) ==
  Concat([i \in DOMAIN group |->
    Concat([j \in DOMAIN group[i].v |->
      IF group[i].v[j].kind = "segment" THEN <<group[i].v[j].segment>>
      ELSE SegmentsOf(group[i].v[j].group)])])

\* C30: for a segment group whose segment fields are named *_segment, the
\* number of segment terminators in the output of X12SegmentGroup.x12, with
\* and without new lines, equals count_segments of the group's dict, which
\* is the number of its segments; None fields and empty lists add to
\* neither, and the output is the segments' texts in document order.
C30_SerializerAndCounterAgree ==
  call.fn = "count_segments(X12SegmentGroup.dict())" =>
    LET delimiters == IF call.arg.custom_delimiters = NoDelimiters
                      THEN X12Delimiters ELSE call.arg.custom_delimiters
        segments == SegmentsOf(call.arg.self)
    IN /\ call.result.count
            = Return(Occurrences(call.result.compact,
                                 delimiters.segment_terminator))
       /\ call.result.count
            = Return(Occurrences(call.result.pretty,
                                 delimiters.segment_terminator))
       /\ call.result.count = Return(Len(segments))
       /\ call.result.compact
            = Concat([i \in DOMAIN segments |->
                        X12Segment_x12(segments[i], delimiters)])

\* C30 witness: a group of two levels that holds an empty list, a list of
\* two segments in the nested group and a None field, with five segments
\* or more.
C30_Witness ==
  /\ call.fn = "count_segments(X12SegmentGroup.dict())"
  /\ Depth(call.arg.self) = 2
  /\ \E i \in DOMAIN call.arg.self : call.arg.self[i] = FList(<<>>)
  /\ \E i \in DOMAIN call.arg.self :
       /\ call.arg.self[i].kind = "list"
       /\ Len(call.arg.self[i].v) = 2
       /\ call.arg.self[i].v[1].kind = "group"
       /\ \E j \in DOMAIN call.arg.self[i].v[1].group :
            call.arg.self[i].v[1].group[j] = FNone
  /\ call.result.count.raised = ""
  /\ call.result.count.value >= 4

(* ---------------- C31 --------------------------------------------------- *)
\* C31: parse_x12_date reports no bad length: None, the empty str and every
\* str whose length is none of 4, 6, 8 and 12 decode to None and raise
\* nothing, so the result for such a str is the result for a missing field.
C31_NoBadLength ==
  ( /\ call.fn = "parse_x12_date"
    /\ \/ call.arg.none
       \/ Len(call.arg.s) \notin {4, 6, 8, 12} ) =>
    /\ call.result = Return(VNone)
    /\ call.result = parse_x12_date(PyNone)

\* C31 witness: a str of thirteen characters, one more than a datetime, has
\* been decoded to None.
C31_Witness ==
  /\ call.fn = "parse_x12_date"
  /\ ~call.arg.none
  /\ Len(call.arg.s) = 13
  /\ call.result.raised = ""
  /\ call.result.value = VNone

====
